---- MODULE Spec2Model ----
(***************************************************************************)
(* SSC-ASPM backend: the caching and aggregation sublayer.                 *)
(*   - Scheduler            backend/services/scheduler.js                  *)
(*   - SSCApiClient         backend/services/ssc-client.js                 *)
(*   - data aggregator      services/data-aggregator.js (in README.md)     *)
(*   - CacheManager, routes, errorHandler                                  *)
(* Node.js runs every handler to its next await without interruption, so   *)
(* each action below is one such run of synchronous code.                  *)
(***************************************************************************)
EXTENDS Integers, Sequences, FiniteSets, TLC

\* ------------------------------------------------------------------ bounds
MaxJobs == 2          \* jobs that may be registered
MaxTriggers == 3      \* forceRefresh() invocations in one behaviour
MaxClock == 2         \* readings of Date.now()
MaxRetries == 3       \* largest configured `retries` of the client
MaxVersions == 5      \* project versions the upstream may hold
MaxRequests == 7      \* request functions handed to parallelFetch
MaxConcurrency == 3   \* largest `concurrency` handed to parallelFetch
MaxSize == 2          \* largest configured maxSize of the cache
MaxServed == 2        \* HTTP requests received in one behaviour
MaxPending == 2       \* requests awaiting their transformer at one time
MaxOps == 3           \* direct calls of the cache's methods in one behaviour
MaxCalls == 5         \* recorded start(), stop() and timer callbacks in one behaviour
MaxStatOps == 4       \* calls of the cache's methods in one behaviour of SpecStats
MaxLimit == 3         \* largest params.limit handed to getWithPagination
MaxChecks == 2        \* GET /api/health requests in one behaviour

VARIABLES
    now,                \* Date.now()
    \* ---- Scheduler (scheduler.js:11-17)
    isRunning,
    intervalId,         \* 0 models null, otherwise the id of the armed timer
    refreshFunctions,   \* sequence of job names
    lastRefreshTime,    \* NoTime models null
    refreshInProgress,
    \* ---- Scheduler: execution state and history
    timers,             \* ids of the interval timers currently armed
    cycles,             \* forceRefresh() calls suspended at `await fn()`
    ended,              \* how the forceRefresh() call that ended last ended
    hist,               \* counters of triggers, skips, cycles, job invocations
    called,             \* the last recorded start(), stop() or timer callback
    \* ---- SSCApiClient (ssc-client.js:19-24)
    retries,            \* this.retries
    getCall,            \* one get() call: where it stands
    getLog,             \* the failures of its attempts so far, in order
    paging,             \* one getWithPagination() call: where it stands
    \* ---- upstream
    versions,           \* the project versions the upstream holds
    \* ---- fetchAllIssues / aggregateIssuesAcrossVersions (data-aggregator.js)
    faPc,               \* "idle", "list", "agg", "resolved", "rejected"
    listCall,           \* the get() that fetches the version list
    aggChunks,          \* chunks
    aggChunk,           \* index of the chunk being awaited
    calls,              \* per version: sscClient.get(...).catch(...)
    allIssues,
    metrics,            \* what the per-version callbacks of a transformer accumulate
    \* ---- parallelFetch (data-aggregator.js)
    pfPc,               \* "idle", "running", "resolved", "rejected"
    pfConcurrency,      \* the argument `concurrency`; 0 before the call
    pfChunks,           \* chunks
    pfChunk,            \* index of the chunk being awaited
    pfReq,              \* per request function: "idle", "inflight", "ok", "failed"
    pfResults,          \* results
    \* ---- CacheManager (part_001:12-24)
    cache,              \* this.cache: the Map's entries in insertion order
    maxSize,            \* this.maxSize
    stats,              \* this.stats
    lastOp,             \* the last direct call of a method of the cache:
                        \* its arguments and what it returned
    written,            \* per key stored: payload, time and ttl of the last set
    tally,              \* calls of get and set made, gets that returned an entry,
                        \* entries removed by evictLRU
    keyed,              \* the last generateKey() call: its arguments and its result
    script,             \* how far the calls so far follow set(A), set(B),
                        \* get(A), set(C) on an empty cache of maxSize 2
    \* ---- Express: route handlers and errorHandler
    pending,            \* requests suspended at `await transformer...`
    response,           \* the response sent last
    served,             \* requests received so far
    boot                \* the app.listen callback and GET /api/health: where
                        \* they are and what testConnection() told them

schedVars == <<isRunning, intervalId, refreshFunctions, lastRefreshTime,
               refreshInProgress, timers, cycles, ended, hist, called>>

clientVars == <<retries, getCall, getLog, paging>>

aggVars == <<versions, faPc, listCall, aggChunks, aggChunk, calls, allIssues, metrics>>

pfVars == <<pfPc, pfConcurrency, pfChunks, pfChunk, pfReq, pfResults>>

cacheVars == <<cache, maxSize, stats, lastOp, written, script, keyed, tally>>

routeVars == <<pending, response, served, boot>>

vars == <<now, schedVars, clientVars, aggVars, pfVars, cacheVars, routeVars>>

NoTime == 0 - 1

\* ============================================================== SSCApiClient
retryDelay == 1000

\* An attempt that fails rejects with an axios error: without a response
\* (`!error.response`: connection refused, timeout) or with the status of
\* the response.  NoResponse stands for the first.
NoResponse == 0

Statuses == {400, 401, 403, 404, 429, 500, 502, 503, 504}

Failures == {NoResponse} \cup Statuses

\* A client that retries whatever failed.
shouldRetryAlways(error) == TRUE

\* shouldRetry(error)  (ssc-client.js:202-207)
shouldRetry(error) ==
    IF error = NoResponse
    THEN TRUE
    ELSE error >= 500 /\ error < 600

\* classifyError(error, endpoint)  (ssc-client.js:215-258)
classifyError(error) ==
    IF error = NoResponse THEN [type |-> "NETWORK_ERROR", statusCode |-> 503]
    ELSE IF error = 401 THEN [type |-> "AUTH_ERROR", statusCode |-> 401]
    ELSE IF error = 403 THEN [type |-> "PERMISSION_ERROR", statusCode |-> 403]
    ELSE IF error = 404 THEN [type |-> "NOT_FOUND", statusCode |-> 404]
    ELSE IF error = 400 THEN [type |-> "BAD_REQUEST", statusCode |-> 400]
    ELSE [type |-> "API_ERROR", statusCode |-> error]

NoError == [type |-> "none", statusCode |-> 0]

\* get(endpoint, params, attempt = 1) up to its first await
\* (ssc-client.js:81-83): attempt 1 is in flight.
NewCall == [st |-> "inflight", attempt |-> 1, waits |-> <<>>, err |-> NoError]

NotCalled == [st |-> "idle", attempt |-> 0, waits |-> <<>>, err |-> NoError]

\* The attempt in flight gets a 2xx response (ssc-client.js:83-84).
OnSuccess(call) == [call EXCEPT !.st = "resolved"]

\* A get() that sleeps retryDelay before every retry.
OnFailureConstantDelay(call, error, maxAttempts) ==
    IF call.attempt < maxAttempts /\ shouldRetry(error)
    THEN [call EXCEPT !.st = "sleeping", !.waits = Append(@, retryDelay)]
    ELSE [call EXCEPT !.st = "rejected", !.err = classifyError(error)]

\* A get() that throws the classification of its first failure.
OnFailureFirstError(call, error, maxAttempts) ==
    LET first == IF call.err = NoError THEN classifyError(error) ELSE call.err
    IN  IF call.attempt < maxAttempts /\ shouldRetry(error)
        THEN [call EXCEPT !.st = "sleeping", !.err = first,
                          !.waits = Append(@, retryDelay * call.attempt)]
        ELSE [call EXCEPT !.st = "rejected", !.err = first]

\* The attempt in flight fails (ssc-client.js:85-99): sleep and call get()
\* again with attempt + 1, or throw the classified error.
OnFailure(call, error, maxAttempts) ==
    IF call.attempt < maxAttempts /\ shouldRetry(error)
    THEN [call EXCEPT !.st = "sleeping",
                      !.waits = Append(@, retryDelay * call.attempt)]
    ELSE [call EXCEPT !.st = "rejected", !.err = classifyError(error)]

\* sleep(delay) is over: `return this.get(endpoint, params, attempt + 1)`
\* (ssc-client.js:93-94) issues the next attempt.
OnWake(call) == [call EXCEPT !.st = "inflight", !.attempt = @ + 1]

Settled(call) == call.st \in {"resolved", "rejected"}

\* No getWithPagination() call made.  `asked` lists the `start` of the
\* requests made so far, `count` tells whether the responses carry a count.
NotPaging ==
    [st |-> "idle", start |-> 0, limit |-> 0, allData |-> <<>>, asked |-> <<>>,
     count |-> FALSE]

ClientIdle ==
    /\ retries = MaxRetries
    /\ getCall = NotCalled
    /\ getLog = <<>>
    /\ paging = NotPaging

GetSucceeds ==
    /\ getCall.st = "inflight"
    /\ getCall' = OnSuccess(getCall)
    /\ UNCHANGED <<now, schedVars, retries, getLog, paging, aggVars, pfVars, cacheVars,
                   routeVars>>

GetFails(error) ==
    /\ getCall.st = "inflight"
    /\ getCall' = OnFailure(getCall, error, retries)
    /\ getLog' = Append(getLog, error)
    /\ UNCHANGED <<now, schedVars, retries, paging, aggVars, pfVars, cacheVars, routeVars>>

GetWakes ==
    /\ getCall.st = "sleeping"
    /\ getCall' = OnWake(getCall)
    /\ UNCHANGED <<now, schedVars, retries, getLog, paging, aggVars, pfVars, cacheVars,
                   routeVars>>


\* ============================================================ Data aggregator
maxConcurrentRequests == 2

defaultPageSize == 200

Min(a, b) == IF a < b THEN a ELSE b

\* chunkArray that cuts chunks one element too long.
chunkArrayTooLong(array, size) ==
    [k \in 1..((Len(array) + size) \div (size + 1)) |->
        SubSeq(array, (k - 1) * (size + 1) + 1, Min(k * (size + 1), Len(array)))]

\* chunkArray(array, size)  (README.md:487-493): slices [i, i + size) for
\* i = 0, size, 2 size, ... while i < array.length.
chunkArray(array, size) ==
    [k \in 1..((Len(array) + size - 1) \div size) |->
        SubSeq(array, (k - 1) * size + 1, Min(k * size, Len(array)))]

\* The issues the upstream holds for a version: <<version, k>> names the
\* k-th one.  Versions hold 1, 2, 0, 1, 2, ... issues.
IssuesOf(v) == [k \in 1..(v % 3) |-> <<v, k>>]

RECURSIVE flatMap(_, _)
\* results.flatMap(f)  (README.md:532)
flatMap(f, results) ==
    IF results = <<>> THEN <<>>
    ELSE f[Head(results)] \o flatMap(f, Tail(results))

\* Once a promise has settled only its outcome is read again.
Forget(call) == [call EXCEPT !.attempt = 0, !.waits = <<>>, !.err = NoError]

\* A per-version promise without the .catch(): a rejection stays one.
VersionPromiseUncaught(call) ==
    IF Settled(call) THEN Forget(call) ELSE call

\* sscClient.get(...).catch(error => ({ data: [] }))  (README.md:519-528):
\* the state of the promise given the state of the get() it wraps.
VersionPromise(call) ==
    IF call.st = "rejected" THEN [Forget(call) EXCEPT !.st = "defaulted"]
    ELSE IF call.st = "resolved" THEN Forget(call)
    ELSE call

\* `r.data || []` for the value r each per-version promise resolved to
\* (README.md:532): the response body, or { data: [] } from the catch.
DataOf(cs) ==
    [v \in DOMAIN cs |->
        IF cs[v].st = "resolved" THEN IssuesOf(versions[v]) ELSE <<>>]

\* Promise.all that resolves as soon as one promise is fulfilled.
AllFulfilledEarly(states) == \E st \in states : st \in {"resolved", "defaulted", "ok"}

\* Promise.all(promises) has every promise fulfilled (README.md:531).
AllFulfilled(states) == \A st \in states : st \in {"resolved", "defaulted", "ok"}

\* Promise.all(promises) has a rejected promise.
SomeRejected(states) == \E st \in states : st \in {"rejected", "failed"}

Range(s) == {s[i] : i \in 1..Len(s)}

\* chunk.map(version => sscClient.get(...).catch(...))  (README.md:518-529)
IssueChunk(cs, chunk) ==
    [v \in DOMAIN cs |-> IF v \in Range(chunk) THEN VersionPromise(NewCall) ELSE cs[v]]

\* linesOfCode the upstream reports for the artifacts of a version.
LinesOf(version) == 10 * version

\* let totalLOC = 0 ...  (part_006:91-93); `ids` are the versions that had
\* data, `order` the order in which the responses arrived.
NoMetrics == [totalLOC |-> 0, ids |-> {}, order |-> <<>>]

\* A callback that keeps the lines of the response that arrived last.
OnArtifactsKeepsLast(m, version) ==
    [totalLOC |-> LinesOf(version), ids |-> m.ids \cup {version},
     order |-> Append(m.order, version)]

\* The callback of a per-version response (part_006:108-118):
\* totalLOC += artifact.linesOfCode
OnArtifacts(m, version) ==
    [totalLOC |-> m.totalLOC + LinesOf(version), ids |-> m.ids \cup {version},
     order |-> Append(m.order, version)]

AggIdle ==
    /\ faPc = "idle"
    /\ listCall = NotCalled
    /\ aggChunks = <<>>
    /\ aggChunk = 0
    /\ calls = <<>>
    /\ allIssues = <<>>
    /\ metrics = NoMetrics

PfIdle ==
    /\ pfPc = "idle"
    /\ pfConcurrency = 0
    /\ pfChunks = <<>>
    /\ pfChunk = 0
    /\ pfReq = <<>>
    /\ pfResults = <<>>

\* fetchAllIssues(sscClient, filters) up to its first await
\* (README.md:758-767): getWithPagination requests the first page.
CallFetchAllIssues ==
    /\ faPc = "idle"
    /\ pfPc = "idle"
    /\ faPc' = "list"
    /\ listCall' = NewCall
    /\ UNCHANGED <<now, schedVars, clientVars, versions, aggChunks, aggChunk, calls,
                   allIssues, metrics, pfVars, cacheVars, routeVars>>

\* An attempt of the version-list request fails (ssc-client.js:85-99); a
\* rejected get() rejects getWithPagination and fetchAllIssues.
ListFails(error) ==
    /\ faPc = "list"
    /\ listCall.st = "inflight"
    /\ listCall' = OnFailure(listCall, error, retries)
    /\ faPc' = IF listCall'.st = "rejected" THEN "rejected" ELSE faPc
    /\ UNCHANGED <<now, schedVars, clientVars, versions, aggChunks, aggChunk, calls,
                   allIssues, metrics, pfVars, cacheVars, routeVars>>

ListWakes ==
    /\ faPc = "list"
    /\ listCall.st = "sleeping"
    /\ listCall' = OnWake(listCall)
    /\ UNCHANGED <<now, schedVars, clientVars, versions, faPc, aggChunks, aggChunk,
                   calls, allIssues, metrics, pfVars, cacheVars, routeVars>>

\* The version-list request succeeds.  The page holds fewer than
\* defaultPageSize versions, so getWithPagination stops after it
\* (ssc-client.js:174-184) and aggregateIssuesAcrossVersions runs to its
\* first await (README.md:508-531), or to its end when there is no version.
ListSucceeds ==
    /\ faPc = "list"
    /\ listCall.st = "inflight"
    /\ Len(versions) < defaultPageSize
    /\ listCall' = OnSuccess(listCall)
    /\ LET chunks == chunkArray(versions, maxConcurrentRequests)
       IN  /\ aggChunks' = chunks
           /\ IF Len(chunks) = 0
              THEN /\ faPc' = "resolved"
                   /\ aggChunk' = 0
                   /\ calls' = <<>>
              ELSE /\ faPc' = "agg"
                   /\ aggChunk' = 1
                   /\ calls' = IssueChunk([v \in 1..Len(versions) |-> NotCalled],
                                          chunks[1])
    /\ UNCHANGED <<now, schedVars, clientVars, versions, allIssues, metrics, pfVars,
                   cacheVars, routeVars>>

\* After a per-version promise changed state: Promise.all of the awaited
\* chunk settles or stays pending (README.md:531-534), and the loop goes on.
AggResume(cs) ==
    LET chunk == aggChunks[aggChunk]
        states == {cs[v].st : v \in Range(chunk)}
    IN  IF faPc # "agg" THEN
            /\ calls' = cs
            /\ UNCHANGED <<faPc, aggChunk, allIssues>>
        ELSE IF SomeRejected(states) THEN
            /\ calls' = cs
            /\ faPc' = "rejected"
            /\ UNCHANGED <<aggChunk, allIssues>>
        ELSE IF AllFulfilled(states) THEN
            /\ allIssues' = allIssues \o flatMap(DataOf(cs), chunk)
            /\ IF aggChunk < Len(aggChunks)
               THEN /\ aggChunk' = aggChunk + 1
                    /\ calls' = IssueChunk(cs, aggChunks[aggChunk + 1])
                    /\ UNCHANGED faPc
               ELSE /\ faPc' = "resolved"
                    /\ calls' = cs
                    /\ UNCHANGED aggChunk
        ELSE
            /\ calls' = cs
            /\ UNCHANGED <<faPc, aggChunk, allIssues>>

\* The request for version v's issues gets a 2xx response.  A transformer
\* that runs the same loop over its own per-version requests
\* (part_006:98-126) accumulates in the callback of that response.
VersionSucceeds(v) ==
    /\ v \in DOMAIN calls
    /\ calls[v].st = "inflight"
    /\ AggResume([calls EXCEPT ![v] = VersionPromise(OnSuccess(calls[v]))])
    /\ metrics' = OnArtifacts(metrics, versions[v])
    /\ UNCHANGED <<now, schedVars, clientVars, versions, listCall, aggChunks, pfVars,
                   cacheVars, routeVars>>

\* An attempt of the request for version v's issues fails.
VersionFails(v, error) ==
    /\ v \in DOMAIN calls
    /\ calls[v].st = "inflight"
    /\ AggResume([calls EXCEPT ![v] = VersionPromise(OnFailure(calls[v], error, retries))])
    /\ UNCHANGED <<now, schedVars, clientVars, versions, listCall, aggChunks, metrics,
                   pfVars, cacheVars, routeVars>>

\* The backoff sleep of the request for version v's issues ends.
VersionWakes(v) ==
    /\ v \in DOMAIN calls
    /\ calls[v].st = "sleeping"
    /\ calls' = [calls EXCEPT ![v] = OnWake(calls[v])]
    /\ UNCHANGED <<now, schedVars, clientVars, versions, faPc, listCall, aggChunks,
                   aggChunk, allIssues, metrics, pfVars, cacheVars, routeVars>>

\* chunk.map(fn => fn())  (README.md:474)
PfIssueChunk(rs, chunk) ==
    [i \in DOMAIN rs |-> IF i \in Range(chunk) THEN "inflight" ELSE rs[i]]

\* parallelFetch(requests, concurrency) up to its first await
\* (README.md:469-474), or to its end when there is no request.  Request
\* function i resolves to the value i.
CallParallelFetch(n, concurrency) ==
    /\ faPc = "idle"
    /\ pfPc = "idle"
    /\ LET requests == [i \in 1..n |-> i]
           chunks == chunkArray(requests, concurrency)
       IN  /\ pfConcurrency' = concurrency
           /\ pfChunks' = chunks
           /\ IF Len(chunks) = 0
              THEN /\ pfPc' = "resolved"
                   /\ pfChunk' = 0
                   /\ pfReq' = <<>>
              ELSE /\ pfPc' = "running"
                   /\ pfChunk' = 1
                   /\ pfReq' = PfIssueChunk([i \in 1..n |-> "idle"], chunks[1])
    /\ UNCHANGED <<now, schedVars, clientVars, aggVars, pfResults, cacheVars, routeVars>>

\* The promise of request function i settles; Promise.all of the awaited
\* chunk rejects, resolves or stays pending (README.md:474-478).
RequestSettles(i, outcome) ==
    /\ i \in DOMAIN pfReq
    /\ pfReq[i] = "inflight"
    /\ LET rs == [pfReq EXCEPT ![i] = outcome]
           chunk == pfChunks[pfChunk]
           states == {rs[j] : j \in Range(chunk)}
       IN  IF pfPc # "running" THEN
               /\ pfReq' = rs
               /\ UNCHANGED <<pfPc, pfChunk, pfResults>>
           ELSE IF SomeRejected(states) THEN
               /\ pfReq' = rs
               /\ pfPc' = "rejected"
               /\ UNCHANGED <<pfChunk, pfResults>>
           ELSE IF AllFulfilled(states) THEN
               /\ pfResults' = pfResults \o chunk
               /\ IF pfChunk < Len(pfChunks)
                  THEN /\ pfChunk' = pfChunk + 1
                       /\ pfReq' = PfIssueChunk(rs, pfChunks[pfChunk + 1])
                       /\ UNCHANGED pfPc
                  ELSE /\ pfPc' = "resolved"
                       /\ pfReq' = rs
                       /\ UNCHANGED pfChunk
           ELSE
               /\ pfReq' = rs
               /\ UNCHANGED <<pfPc, pfChunk, pfResults>>
    /\ UNCHANGED <<now, schedVars, clientVars, aggVars, pfConcurrency, pfChunks,
                   cacheVars, routeVars>>

\* ============================================ SSCApiClient.getWithPagination
\* The page an upstream that honours start and limit answers with: the
\* items at offsets start .. start + limit - 1 of the collection.
Page(items, start, limit) == SubSeq(items, start + 1, Min(start + limit, Len(items)))

\* response.count: the size of the collection when the upstream advertises
\* it, and 0, which is falsy like undefined, when it does not.
Count(items, advertised) == IF advertised THEN Len(items) ELSE 0

\* getWithPagination(endpoint, params) up to its first `await this.get(...)`
\* (ssc-client.js:168-174).  limit = 0 models a call without params.limit.
CallGetWithPagination(limit, advertised) ==
    /\ paging.st = "idle"
    /\ paging' = [st |-> "awaiting", start |-> 0,
                  limit |-> IF limit # 0 THEN limit ELSE defaultPageSize,
                  allData |-> <<>>, asked |-> <<0>>, count |-> advertised]
    /\ getCall' = NewCall
    /\ getLog' = <<>>
    /\ UNCHANGED <<now, schedVars, retries, aggVars, pfVars, cacheVars, routeVars>>

\* A loop that asks for the same page again.
PageArrivesNoAdvance ==
    /\ paging.st = "awaiting"
    /\ getCall.st = "resolved"
    /\ LET data == Page(versions, paging.start, paging.limit)
       IN  IF Len(data) = 0
           THEN /\ paging' = [paging EXCEPT !.st = "resolved"]
                /\ UNCHANGED <<getCall, getLog>>
           ELSE /\ paging' = [paging EXCEPT !.allData = @ \o data,
                                           !.asked = Append(@, paging.start)]
                /\ getCall' = NewCall
                /\ getLog' = <<>>
    /\ UNCHANGED <<now, schedVars, retries, aggVars, pfVars, cacheVars, routeVars>>

\* `await this.get(...)` returned the page: the rest of the loop body, to
\* the next `await this.get(...)` or to the return (ssc-client.js:174-194).
PageArrives ==
    /\ paging.st = "awaiting"
    /\ getCall.st = "resolved"
    /\ LET data == Page(versions, paging.start, paging.limit)
           count == Count(versions, paging.count)
           all == paging.allData \o data
       IN  IF Len(data) = 0
           THEN /\ paging' = [paging EXCEPT !.st = "resolved"]
                /\ UNCHANGED <<getCall, getLog>>
           ELSE IF Len(data) < paging.limit \/ (count # 0 /\ Len(all) >= count)
                THEN /\ paging' = [paging EXCEPT !.st = "resolved", !.allData = all]
                     /\ UNCHANGED <<getCall, getLog>>
                ELSE /\ paging' = [paging EXCEPT
                            !.allData = all, !.start = @ + paging.limit,
                            !.asked = Append(@, paging.start + paging.limit)]
                     /\ getCall' = NewCall
                     /\ getLog' = <<>>
    /\ UNCHANGED <<now, schedVars, retries, aggVars, pfVars, cacheVars, routeVars>>

\* `await this.get(...)` threw: getWithPagination rejects with the same error
\* (ssc-client.js:174, no try around it).
PageFails ==
    /\ paging.st = "awaiting"
    /\ getCall.st = "rejected"
    /\ paging' = [paging EXCEPT !.st = "rejected"]
    /\ UNCHANGED <<now, schedVars, retries, getCall, getLog, aggVars, pfVars, cacheVars,
                   routeVars>>

\* ================================================================ Scheduler
JobNames == 1..MaxJobs

\* What a job's promise settles to (scheduler.js:102): it resolves, or it
\* rejects with an Error, with a non-Error value that has properties (a
\* string, an object), or with undefined/null.
Outcomes == {"return", "throwError", "throwValue", "throwNullish"}

NoCycle == [how |-> "none", nStart |-> 0, jobsAtStart |-> <<>>, invoked |-> <<>>,
            threw |-> {}, success |-> <<>>, failed |-> <<>>, startTime |-> NoTime]

\* No call recorded yet.  `was` is isRunning before the call, `cycle` whether
\* the call started a refresh cycle, `stops` the stop() calls made so far.
NoCall == [n |-> 0, op |-> "none", was |-> FALSE, cycle |-> FALSE, stops |-> 0]

SchedInit ==
    /\ called = NoCall
    /\ isRunning = FALSE
    /\ intervalId = 0
    /\ refreshFunctions = <<>>
    /\ lastRefreshTime = NoTime
    /\ refreshInProgress = FALSE
    /\ timers = {}
    /\ cycles = <<>>
    /\ ended = NoCycle
    /\ hist = [triggers |-> 0, skipped |-> 0, cycles |-> 0, invoked |-> 0]

\* A forceRefresh() that has lost its guard: it never skips.
GuardNever == FALSE

\* scheduler.js:81  `if (this.refreshInProgress)`
GuardSet == refreshInProgress

\* error.message as read in the catch block (scheduler.js:106)
ErrorMessage(outcome) ==
    IF outcome = "throwError" THEN "message" ELSE "undefined"

\* The synchronous prefix of forceRefresh(): the guard, then the loop up to
\* its first `await fn()`.  With no job registered the loop body never runs
\* and the call returns without suspending.
forceRefresh ==
    IF GuardSet
    THEN /\ hist' = [hist EXCEPT !.triggers = @ + 1, !.skipped = @ + 1]
         /\ UNCHANGED <<refreshInProgress, lastRefreshTime, cycles, ended>>
    ELSE IF Len(refreshFunctions) = 0
         THEN /\ refreshInProgress' = FALSE
              /\ lastRefreshTime' = now
              /\ ended' = [NoCycle EXCEPT !.how = "returned", !.startTime = now]
              /\ hist' = [hist EXCEPT !.triggers = @ + 1, !.cycles = @ + 1]
              /\ UNCHANGED cycles
         ELSE /\ refreshInProgress' = TRUE
              /\ cycles' = Append(cycles,
                     [idx |-> 1, nStart |-> Len(refreshFunctions),
                      jobsAtStart |-> refreshFunctions,
                      invoked |-> <<refreshFunctions[1]>>, threw |-> {},
                      success |-> <<>>, failed |-> <<>>, startTime |-> now])
              /\ hist' = [hist EXCEPT !.triggers = @ + 1, !.cycles = @ + 1,
                                      !.invoked = @ + 1]
              /\ UNCHANGED <<lastRefreshTime, ended>>

\* register(name, fn)  (scheduler.js:29-32).  Jobs are registered under
\* distinct names, as server.js:94-107 does: the k-th job is named k.
Register(name) ==
    /\ Len(refreshFunctions) < MaxJobs
    /\ name = Len(refreshFunctions) + 1
    /\ refreshFunctions' = Append(refreshFunctions, name)
    /\ UNCHANGED <<now, isRunning, intervalId, lastRefreshTime, refreshInProgress,
                   timers, cycles, ended, hist, called, clientVars, aggVars, pfVars,
                   cacheVars, routeVars>>

FreshTimer == CHOOSE t \in 1..(Cardinality(timers) + 1) : t \notin timers

\* A start() without its guard: it arms a timer whenever it is called.
startUnguarded ==
    /\ isRunning' = TRUE
    /\ forceRefresh
    /\ intervalId' = FreshTimer
    /\ timers' = timers \cup {FreshTimer}
    /\ UNCHANGED refreshFunctions

\* The body of start()  (scheduler.js:37-56)
start ==
    IF isRunning
    THEN UNCHANGED <<isRunning, intervalId, refreshFunctions, lastRefreshTime,
                     refreshInProgress, timers, cycles, ended, hist>>
    ELSE /\ isRunning' = TRUE
         /\ forceRefresh
         /\ intervalId' = FreshTimer
         /\ timers' = timers \cup {FreshTimer}
         /\ UNCHANGED refreshFunctions

\* A stop() that leaves its timer armed.
stopKeepsTimer ==
    /\ isRunning' = FALSE
    /\ UNCHANGED <<intervalId, timers>>

\* A stop() that clears its timer and leaves isRunning set.
stopKeepsFlag ==
    /\ IF intervalId # 0
       THEN /\ timers' = timers \ {intervalId}
            /\ intervalId' = 0
       ELSE UNCHANGED <<intervalId, timers>>
    /\ UNCHANGED isRunning

\* The body of stop()  (scheduler.js:61-74)
stop ==
    IF ~isRunning
    THEN UNCHANGED <<isRunning, intervalId, timers>>
    ELSE /\ IF intervalId # 0
            THEN /\ timers' = timers \ {intervalId}
                 /\ intervalId' = 0
            ELSE UNCHANGED <<intervalId, timers>>
         /\ isRunning' = FALSE

\* new Scheduler(parseInt(process.env.REFRESH_INTERVAL) || 900000)
\* (server.js:91), in units of 900000 ms.
refreshInterval == 1

\* date.toISOString() and the Date it parses to: the reading of the clock
\* the Date holds, written as text.
toISOString(date) == [kind |-> "string", iso |-> date]

DateOf(str) == str.iso

\* getStatus()  (scheduler.js:133-141); lastRefreshTime is a Date, which is
\* truthy, or null.
getStatus ==
    [isRunning |-> isRunning,
     refreshInProgress |-> refreshInProgress,
     lastRefreshTime |-> IF lastRefreshTime # NoTime
                         THEN toISOString(lastRefreshTime)
                         ELSE [kind |-> "null", iso |-> 0],
     refreshInterval |-> refreshInterval,
     registeredFunctions |-> Len(refreshFunctions)]

\* start()  (scheduler.js:37-56)
Start ==
    /\ hist.triggers < MaxTriggers
    /\ start
    /\ UNCHANGED <<called, now, clientVars, aggVars, pfVars, cacheVars, routeVars>>

\* stop()  (scheduler.js:61-74)
Stop ==
    /\ stop
    /\ UNCHANGED <<now, refreshFunctions, lastRefreshTime, refreshInProgress,
                   cycles, ended, hist, called, clientVars, aggVars, pfVars, cacheVars,
                   routeVars>>

\* The callback of setInterval (scheduler.js:53-55) fires for an armed timer.
TimerTick ==
    /\ timers # {}
    /\ hist.triggers < MaxTriggers
    /\ forceRefresh
    /\ UNCHANGED <<now, isRunning, intervalId, refreshFunctions, timers, called,
                   clientVars, aggVars, pfVars, cacheVars, routeVars>>

\* A direct call of forceRefresh() (scheduler.js:80).
ForceRefreshCall ==
    /\ hist.triggers < MaxTriggers
    /\ forceRefresh
    /\ UNCHANGED <<now, isRunning, intervalId, refreshFunctions, timers, called,
                   clientVars, aggVars, pfVars, cacheVars, routeVars>>

\* The record of a call: its number, what it was, isRunning before it,
\* whether it started a refresh cycle, and the stop() calls made so far.
Record(op) ==
    called' = [n |-> called.n + 1, op |-> op, was |-> isRunning,
               cycle |-> hist'.cycles > hist.cycles,
               stops |-> called.stops + (IF op = "stop" THEN 1 ELSE 0)]

\* start() as server.js:155 calls it, recorded.
StartCall ==
    /\ called.n < MaxCalls
    /\ hist.triggers < MaxTriggers
    /\ start
    /\ Record("start")
    /\ UNCHANGED <<now, clientVars, aggVars, pfVars, cacheVars, routeVars>>

\* stop() as server.js:123 calls it, recorded.
StopCall ==
    /\ called.n < MaxCalls
    /\ stop
    /\ UNCHANGED <<refreshFunctions, lastRefreshTime, refreshInProgress, cycles,
                   ended, hist>>
    /\ Record("stop")
    /\ UNCHANGED <<now, clientVars, aggVars, pfVars, cacheVars, routeVars>>

\* The callback of setInterval (scheduler.js:53-55) fires, recorded.
TimerFires ==
    /\ called.n < MaxCalls
    /\ timers # {}
    /\ hist.triggers < MaxTriggers
    /\ forceRefresh
    /\ Record("timer")
    /\ UNCHANGED <<now, isRunning, intervalId, refreshFunctions, timers, clientVars,
                   aggVars, pfVars, cacheVars, routeVars>>

RemoveAt(s, i) == SubSeq(s, 1, i - 1) \o SubSeq(s, i + 1, Len(s))

\* The job awaited by cycle c settles; forceRefresh() resumes after
\* `await fn()` (scheduler.js:102-113) and runs to its next await or its end
\* (scheduler.js:115-126).
JobSettles(c, outcome) ==
    /\ c \in 1..Len(cycles)
    /\ LET cy == cycles[c]
           name == refreshFunctions[cy.idx]
           rec == IF outcome = "return"
                  THEN [cy EXCEPT !.success = Append(@, name)]
                  ELSE [cy EXCEPT !.threw = @ \cup {name},
                                  !.failed = Append(@, [name |-> name,
                                      error |-> ErrorMessage(outcome)])]
       IN  IF outcome = "throwNullish"
           THEN \* `error.message` throws a TypeError inside the catch block:
                \* the call rejects at scheduler.js:106
                /\ cycles' = RemoveAt(cycles, c)
                /\ ended' = [how |-> "rejected", nStart |-> cy.nStart,
                             jobsAtStart |-> cy.jobsAtStart,
                             invoked |-> cy.invoked, threw |-> cy.threw \cup {name},
                             success |-> cy.success, failed |-> cy.failed,
                             startTime |-> cy.startTime]
                /\ UNCHANGED <<refreshInProgress, lastRefreshTime, hist>>
           ELSE IF cy.idx < Len(refreshFunctions)
                THEN /\ cycles' = [cycles EXCEPT ![c] =
                            [rec EXCEPT !.idx = @ + 1,
                                        !.invoked = Append(@, refreshFunctions[cy.idx + 1])]]
                     /\ hist' = [hist EXCEPT !.invoked = @ + 1]
                     /\ UNCHANGED <<refreshInProgress, lastRefreshTime, ended>>
                ELSE /\ cycles' = RemoveAt(cycles, c)
                     /\ lastRefreshTime' = now
                     /\ refreshInProgress' = FALSE
                     /\ ended' = [how |-> "returned", nStart |-> rec.nStart,
                                  jobsAtStart |-> rec.jobsAtStart,
                                  invoked |-> rec.invoked, threw |-> rec.threw,
                                  success |-> rec.success, failed |-> rec.failed,
                                  startTime |-> rec.startTime]
                     /\ UNCHANGED hist
    /\ UNCHANGED <<now, isRunning, intervalId, refreshFunctions, timers, called,
                   clientVars, aggVars, pfVars, cacheVars, routeVars>>

\* Time passes.
Tick ==
    /\ now < MaxClock
    /\ now' = now + 1
    /\ UNCHANGED <<schedVars, clientVars, aggVars, pfVars, cacheVars, routeVars>>


\* ============================================================== CacheManager
\* Strings are sequences of tokens: words, and the separators "/", "_", ":".
\* Times are in units of 900000 ms, the TTL of the `kpis` class.
ttlKpis == 1

\* `${metric}_all`  (part_001:164)
KeyForAll(metric) == metric \o <<"_", "all">>

\* Object.keys(filters).sort(): filter names in ascending order.
NameOrder == <<"businessUnit", "criticality">>

\* Object.keys(filters) left in insertion order.
keysInserted(filters) == [i \in 1..Len(filters) |-> filters[i].name]

keysSorted(filters) ==
    SelectSeq(NameOrder, LAMBDA n : \E i \in 1..Len(filters) : filters[i].name = n)

\* filters[key]
ValueOf(filters, key) ==
    filters[CHOOSE i \in 1..Len(filters) : filters[i].name = key].value

RECURSIVE join(_, _)
\* parts.join(sep)
join(parts, sep) ==
    IF parts = <<>> THEN <<>>
    ELSE IF Len(parts) = 1 THEN parts[1]
    ELSE parts[1] \o sep \o join(Tail(parts), sep)

\* generateKey(metric, filters)  (part_001:162-174); `filters` is
\* the query object, its (name, value) pairs in insertion order.
generateKey(metric, filters) ==
    IF Len(filters) = 0
    THEN KeyForAll(metric)
    ELSE LET names == keysSorted(filters)
             filterParts == join([i \in 1..Len(names) |->
                                     <<names[i], ":">> \o ValueOf(filters, names[i])],
                                 <<"_">>)
         IN  metric \o <<"_">> \o filterParts

\* A `filters` argument: not passed (undefined), null, or an object with its
\* (name, value) pairs in insertion order.
NotPassed == [kind |-> "undefined", pairs |-> <<>>]

NullFilters == [kind |-> "null", pairs |-> <<>>]

Object(pairs) == [kind |-> "object", pairs |-> pairs]

\* cache.generateKey(metric, arg): the default parameter `filters = {}`
\* (part_001:162), `!filters` (part_001:163), then the body.
generateKeyCall(metric, arg) ==
    LET filters == IF arg.kind = "undefined" THEN Object(<<>>) ELSE arg
    IN  IF filters.kind = "null" THEN KeyForAll(metric)
        ELSE generateKey(metric, filters.pairs)

\* this.cache.get(key): the position of the entry, 0 when there is none.
KeyIndex(c, key) ==
    IF \E i \in 1..Len(c) : c[i].key = key
    THEN CHOOSE i \in 1..Len(c) : c[i].key = key
    ELSE 0

\* isExpired(entry)  (part_001:126-130)
isExpired(entry) == now - entry.timestamp > entry.ttl

Absent == [found |-> FALSE, data |-> 0, timestamp |-> NoTime, stale |-> FALSE]

\* JavaScript values of `options.ignoreExpiry` and of the `stale` property:
\* true, false, and undefined (a call without options: `options = {}`).
Undefined == "undefined"

Bool(b) == IF b THEN "true" ELSE "false"

Truthy(x) == x = "true"

\* a && b: a when a is falsy, b otherwise.
And(a, b) == IF Truthy(a) THEN b ELSE a

\* What get() returns for `null`.
Null == [found |-> FALSE, data |-> 0, timestamp |-> NoTime, stale |-> Undefined]

\* A get() that checks expiry whatever the options say.
cacheGetAlwaysChecksExpiry(c, st, key, ignoreExpiry) ==
    LET i == KeyIndex(c, key)
    IN  IF i = 0 \/ isExpired(c[i])
        THEN [cache |-> c, stats |-> [st EXCEPT !.misses = @ + 1], result |-> Null]
        ELSE [cache |-> [c EXCEPT ![i].lastAccessed = now],
              stats |-> [st EXCEPT !.hits = @ + 1],
              result |-> [found |-> TRUE, data |-> c[i].data,
                          timestamp |-> c[i].timestamp,
                          stale |-> And(ignoreExpiry, Bool(isExpired(c[i])))]]

\* A get() that leaves lastAccessed alone.
cacheGetNoTouch(c, st, key, ignoreExpiry) ==
    LET i == KeyIndex(c, key)
    IN  IF i = 0 \/ (~Truthy(ignoreExpiry) /\ isExpired(c[i]))
        THEN [cache |-> c, stats |-> [st EXCEPT !.misses = @ + 1], result |-> Null]
        ELSE [cache |-> c,
              stats |-> [st EXCEPT !.hits = @ + 1],
              result |-> [found |-> TRUE, data |-> c[i].data,
                          timestamp |-> c[i].timestamp,
                          stale |-> And(ignoreExpiry, Bool(isExpired(c[i])))]]

\* A get() that drops the entry it finds expired.
cacheGetRemovesExpired(c, st, key, ignoreExpiry) ==
    LET i == KeyIndex(c, key)
    IN  IF i = 0
        THEN [cache |-> c, stats |-> [st EXCEPT !.misses = @ + 1], result |-> Null]
        ELSE IF ~Truthy(ignoreExpiry) /\ isExpired(c[i])
        THEN [cache |-> SubSeq(c, 1, i - 1) \o SubSeq(c, i + 1, Len(c)),
              stats |-> [st EXCEPT !.misses = @ + 1], result |-> Null]
        ELSE [cache |-> [c EXCEPT ![i].lastAccessed = now],
              stats |-> [st EXCEPT !.hits = @ + 1],
              result |-> [found |-> TRUE, data |-> c[i].data,
                          timestamp |-> c[i].timestamp,
                          stale |-> And(ignoreExpiry, Bool(isExpired(c[i])))]]

\* get(key, options)  (part_001:38-69): the cache and statistics
\* it leaves, and what it returns; ignoreExpiry is options.ignoreExpiry.
cacheGet(c, st, key, ignoreExpiry) ==
    LET i == KeyIndex(c, key)
    IN  IF i = 0 \/ (~Truthy(ignoreExpiry) /\ isExpired(c[i]))
        THEN [cache |-> c, stats |-> [st EXCEPT !.misses = @ + 1], result |-> Null]
        ELSE [cache |-> [c EXCEPT ![i].lastAccessed = now],
              stats |-> [st EXCEPT !.hits = @ + 1],
              result |-> [found |-> TRUE, data |-> c[i].data,
                          timestamp |-> c[i].timestamp,
                          stale |-> And(ignoreExpiry, Bool(isExpired(c[i])))]]

\* The position evictLRU() picks (part_001:136-144): the first
\* entry, in insertion order, of minimal lastAccessed.
OldestIndex(c) ==
    CHOOSE i \in 1..Len(c) :
        /\ \A j \in 1..Len(c) : c[i].lastAccessed <= c[j].lastAccessed
        /\ \A j \in 1..(i - 1) : c[j].lastAccessed > c[i].lastAccessed

\* `if (oldestKey)`: the empty string is falsy.
Falsy(key) == key = <<>>

\* An evictLRU() that does not count what it removes.
evictLRUUncounted(c, st) ==
    IF Len(c) = 0 \/ Falsy(c[OldestIndex(c)].key)
    THEN [cache |-> c, stats |-> st]
    ELSE [cache |-> SubSeq(c, 1, OldestIndex(c) - 1) \o
                    SubSeq(c, OldestIndex(c) + 1, Len(c)),
          stats |-> st]

\* evictLRU()  (part_001:135-154): the cache and statistics it leaves.
evictLRU(c, st) ==
    IF Len(c) = 0 \/ Falsy(c[OldestIndex(c)].key)
    THEN [cache |-> c, stats |-> st]
    ELSE [cache |-> SubSeq(c, 1, OldestIndex(c) - 1) \o
                    SubSeq(c, OldestIndex(c) + 1, Len(c)),
          stats |-> [st EXCEPT !.evictions = @ + 1]]

\* A set() that makes room whenever the cache is full.
cacheSetAlwaysEvicts(c, st, key, data, ttl) ==
    LET kept == IF Len(c) >= maxSize THEN evictLRU(c, st) ELSE [cache |-> c, stats |-> st]
        entry == [key |-> key, data |-> data, timestamp |-> now,
                  lastAccessed |-> now, ttl |-> ttl]
        i == KeyIndex(kept.cache, key)
    IN  [cache |-> IF i = 0 THEN Append(kept.cache, entry)
                   ELSE [kept.cache EXCEPT ![i] = entry],
         stats |-> [kept.stats EXCEPT !.sets = @ + 1]]

\* set(key, data, ttl)  (part_001:77-98).  Map.set keeps the position of a
\* key already present and appends a new one.
cacheSet(c, st, key, data, ttl) ==
    LET kept == IF Len(c) >= maxSize /\ KeyIndex(c, key) = 0
                THEN evictLRU(c, st)
                ELSE [cache |-> c, stats |-> st]
        entry == [key |-> key, data |-> data, timestamp |-> now,
                  lastAccessed |-> now, ttl |-> ttl]
        i == KeyIndex(kept.cache, key)
    IN  [cache |-> IF i = 0 THEN Append(kept.cache, entry)
                   ELSE [kept.cache EXCEPT ![i] = entry],
         stats |-> [kept.stats EXCEPT !.sets = @ + 1]]

\* delete(key)  (part_001:104-110)
cacheDelete(c, key) == SelectSeq(c, LAMBDA e : e.key # key)

\* getTTLForType('kpis')  (part_001:218-220, part_002:55)
getTTLForType(type) == ttlKpis

\* Math.round(x) for x = num / den >= 0: the nearest integer, halves up.
Round(num, den) == (2 * num + den) \div (2 * den)

\* getStats()  (part_001:180-203).  hitRate is in hundredths: the code
\* returns Math.round(hitRate * 100) / 100.
getStats(c, st) ==
    [size |-> Len(c), maxSize |-> maxSize, hits |-> st.hits, misses |-> st.misses,
     sets |-> st.sets, evictions |-> st.evictions,
     hitRate |-> IF st.hits + st.misses > 0
                 THEN Round(st.hits * 100, st.hits + st.misses)
                 ELSE 0]

\* ------------------------------------------- direct calls of the methods
KeyA == <<"A">>

KeyB == <<"B">>

KeyC == <<"C">>

\* Keys handed to the cache: three names and the empty string.
CacheKeys == {<<>>, KeyA, KeyB, KeyC}

\* TTLs handed to set().
TTLs == {0, ttlKpis}

\* options.ignoreExpiry
Options == {Undefined, "false", "true"}

NoOp ==
    [n |-> 0, op |-> "none", key |-> <<>>, opt |-> Undefined, data |-> 0, ttl |-> 0,
     at |-> NoTime, result |-> Null, present |-> FALSE]

NoWrite == [data |-> 0, at |-> NoTime, ttl |-> 0]

\* The record of a call made now; `present` tells whether the key was stored.
NoTally == [gets |-> 0, found |-> 0, sets |-> 0, evicted |-> 0]

\* The tally after a get() that returned `result`.
TallyGet(t, result) ==
    [t EXCEPT !.gets = @ + 1, !.found = @ + (IF result.found THEN 1 ELSE 0)]

\* The tally after set(key, ...) took the cache from c to put: the entries
\* that are gone are those evictLRU() removed.
TallySet(t, c, put, key) ==
    [t EXCEPT !.sets = @ + 1,
              !.evicted = @ + Len(c) + (IF KeyIndex(c, key) = 0 THEN 1 ELSE 0) - Len(put)]

ThisOp(op, key) ==
    [NoOp EXCEPT !.n = lastOp.n + 1, !.op = op, !.key = key, !.at = now,
                 !.present = KeyIndex(cache, key) # 0]

\* `written` for the cache c: keys no longer stored are forgotten.
StillWritten(w, c) == [k \in CacheKeys |-> IF KeyIndex(c, k) = 0 THEN NoWrite ELSE w[k]]

\* Progress along the calls set(A), set(B), get(A), set(C) made on an empty
\* cache of maxSize 2; any other call starts over.
ScriptStep(op, key, opt) ==
    IF script = 1 /\ op = "set" /\ key = KeyB THEN 2
    ELSE IF script = 2 /\ op = "get" /\ key = KeyA /\ opt = Undefined THEN 3
    ELSE IF script = 3 /\ op = "set" /\ key = KeyC THEN 4
    ELSE IF cache = <<>> /\ maxSize = 2 /\ op = "set" /\ key = KeyA THEN 1
    ELSE 0

\* Metric names and filter objects handed to generateKey: no filter, one,
\* two in either insertion order, and one whose value holds separators.
Metrics == {<<"program", "_", "kpis">>, <<"risk", "_", "compliance">>}

Pair(name, value) == [name |-> name, value |-> <<value>>]

\* ?businessUnit=A_criticality:High : a value of the query string that
\* holds the characters generateKey joins with.
Separators ==
    [name |-> "businessUnit", value |-> <<"A", "_", "criticality", ":", "High">>]

FilterArgs ==
    {NotPassed, NullFilters, Object(<<>>)}
    \cup {Object(<<Pair("businessUnit", b)>>) : b \in {"A", "B"}}
    \cup {Object(<<Pair("criticality", c)>>) : c \in {"High", "Low"}}
    \cup {Object(<<Pair("businessUnit", b), Pair("criticality", c)>>) :
              b \in {"A", "B"}, c \in {"High", "Low"}}
    \cup {Object(<<Pair("criticality", c), Pair("businessUnit", b)>>) :
              b \in {"A", "B"}, c \in {"High", "Low"}}
    \cup {Object(<<Separators>>)}

NoKey == [metric |-> <<>>, arg |-> NotPassed, key |-> <<>>]

\* cache.generateKey(metric, arg)  (part_001:162-174): it reads and writes
\* nothing of the cache.
GenerateKeyCall(metric, arg) ==
    /\ keyed' = [metric |-> metric, arg |-> arg, key |-> generateKeyCall(metric, arg)]
    /\ UNCHANGED <<now, schedVars, clientVars, aggVars, pfVars, cache, maxSize, stats,
                   lastOp, written, script, tally, routeVars>>

\* cache.set(key, data, ttl); the n-th call of a behaviour writes payload n.
CacheSetOp(key, data, ttl) ==
    /\ data = lastOp.n + 1
    /\ LET put == cacheSet(cache, stats, key, data, ttl)
       IN  /\ cache' = put.cache
           /\ stats' = put.stats
           /\ written' = [StillWritten(written, put.cache) EXCEPT
                              ![key] = [data |-> data, at |-> now, ttl |-> ttl]]
    /\ lastOp' = [ThisOp("set", key) EXCEPT !.data = data, !.ttl = ttl]
    /\ tally' = TallySet(tally, cache, cache', key)
    /\ script' = ScriptStep("set", key, Undefined)
    /\ UNCHANGED <<now, schedVars, clientVars, aggVars, pfVars, maxSize, keyed, routeVars>>

\* cache.get(key, { ignoreExpiry: opt }), or cache.get(key) when opt is
\* undefined.
CacheGetOp(key, opt) ==
    /\ LET got == cacheGet(cache, stats, key, opt)
       IN  /\ cache' = got.cache
           /\ stats' = got.stats
           /\ lastOp' = [ThisOp("get", key) EXCEPT !.opt = opt, !.result = got.result]
           /\ tally' = TallyGet(tally, got.result)
    /\ script' = ScriptStep("get", key, opt)
    /\ UNCHANGED <<now, schedVars, clientVars, aggVars, pfVars, maxSize, written, keyed,
                   routeVars>>

\* cache.delete(key)
CacheDeleteOp(key) ==
    /\ cache' = cacheDelete(cache, key)
    /\ written' = StillWritten(written, cacheDelete(cache, key))
    /\ lastOp' = ThisOp("delete", key)
    /\ script' = ScriptStep("delete", key, Undefined)
    /\ UNCHANGED <<now, schedVars, clientVars, aggVars, pfVars, maxSize, stats, keyed,
                   tally, routeVars>>

\* A clear() that also resets the counters.
CacheClearResetsStats ==
    /\ cache' = <<>>
    /\ stats' = [hits |-> 0, misses |-> 0, sets |-> 0, evictions |-> 0]
    /\ written' = StillWritten(written, <<>>)
    /\ lastOp' = ThisOp("clear", <<>>)
    /\ script' = ScriptStep("clear", <<>>, Undefined)
    /\ UNCHANGED <<now, schedVars, clientVars, aggVars, pfVars, maxSize, keyed, tally,
                   routeVars>>

\* cache.clear()  (part_001:115-119)
CacheClearOp ==
    /\ cache' = <<>>
    /\ written' = StillWritten(written, <<>>)
    /\ lastOp' = ThisOp("clear", <<>>)
    /\ script' = ScriptStep("clear", <<>>, Undefined)
    /\ UNCHANGED <<now, schedVars, clientVars, aggVars, pfVars, maxSize, stats, keyed,
                   tally, routeVars>>

\* ===================================================== Routes, errorHandler
\* The routers are mounted under /api/<dashboard> (server.js:73-76); each
\* handler names its metric itself (part_002:109, risk.js:20).
\* `catches` tells whether the route's transformer catches the failure of
\* its upstream requests and returns zeros (transformScanCentral,
\* part_006:453-460) or throws it on (transformKPIs, part_006:62-65).
\* `parallel` is the number of upstream requests the route's transformer
\* starts before its first await: transformKPIs three getWithPagination
\* calls in one Promise.all (part_006:24-28), transformCompliance and
\* transformScanCentral one (risk-transformer.js:161, part_006:421).
Routes ==
    {[mount |-> "program", name |-> "kpis", metric |-> <<"program", "_", "kpis">>,
      catches |-> FALSE, parallel |-> 3],
     [mount |-> "risk", name |-> "compliance",
      metric |-> <<"risk", "_", "compliance">>, catches |-> FALSE, parallel |-> 1],
     [mount |-> "program", name |-> "scancentral",
      metric |-> <<"program", "_", "scancentral">>, catches |-> TRUE, parallel |-> 1]}

\* req.query of the requests received.
Queries ==
    {<<>>,
     <<[name |-> "criticality", value |-> <<"High">>],
       [name |-> "businessUnit", value |-> <<"A">>]>>}

\* The payload the transformer computes for the n-th request received is
\* n; Zeros is { pools: 0, workers: 0, utilization: 0 } (part_006:456-460).
Zeros == 0

\* req.path as errorHandler reads it: errorHandler is installed on the app
\* (server.js:88), where the request carries its full path.
ReqPath(route) == <<"/", "api", "/", route.mount, "/", route.name>>

Occurs(str, pat, i) ==
    /\ i + Len(pat) - 1 <= Len(str)
    /\ SubSeq(str, i, i + Len(pat) - 1) = pat

\* str.replace(pat, rep) with a string pattern: the first occurrence only.
replace(str, pat, rep) ==
    IF \E i \in 1..Len(str) : Occurs(str, pat, i)
    THEN LET i == CHOOSE k \in 1..Len(str) :
                     Occurs(str, pat, k) /\ \A j \in 1..(k - 1) : ~Occurs(str, pat, j)
         IN  SubSeq(str, 1, i - 1) \o rep \o SubSeq(str, i + Len(pat), Len(str))
    ELSE str

\* The key the route handler computes (part_002:109, risk.js:20).
RouteKey(route, query) == generateKey(route.metric, query)

\* The key errorHandler computes (error-handler.js:22).
HandlerKey(route, query) ==
    generateKey(replace(ReqPath(route), <<"/", "api", "/">>, <<>>), query)

\* An error thrown by something else than the client: no type, no statusCode.
Unclassified == [type |-> "none", statusCode |-> 0]

\* What a transformer may reject with: a classified error of the client, one
\* of each kind of statusCode (503 for no response, a 4xx, a 5xx), or an
\* error of its own.
Errors == {classifyError(f) : f \in {NoResponse, 404, 500}} \cup {Unclassified}

NoResponseYet ==
    [status |-> 0, data |-> 0, stale |-> FALSE, cacheHit |-> FALSE, error |-> FALSE,
     lastUpdated |-> NoTime, type |-> "none", by |-> "none",
     route |-> "none", query |-> <<>>, arrived |-> NoTime, prior |-> Absent,
     cause |-> Unclassified]

CacheInit ==
    /\ cache = <<>>
    /\ stats = [hits |-> 0, misses |-> 0, sets |-> 0, evictions |-> 0]
    /\ lastOp = NoOp
    /\ written = [k \in CacheKeys |-> NoWrite]
    /\ script = 0
    /\ keyed = NoKey
    /\ tally = NoTally

\* The server before app.listen calls back (server.js:141).  `first` is
\* what testConnection() told the listen callback, `connected` what it told
\* its last caller, `checks` the health requests received.
NotListening == [pc |-> "init", first |-> "none", connected |-> "none", checks |-> 0]

RouteIdle ==
    /\ pending = <<>>
    /\ response = NoResponseYet
    /\ served = 0
    /\ boot = NotListening

\* GET /api/<mount>/<name>?query up to its response or to
\* `await transformer...`  (part_002:107-123, risk.js:18-35).
RouteRequest(route, query) ==
    /\ served < MaxServed
    /\ Len(pending) < MaxPending
    /\ served' = served + 1
    /\ LET cacheKey == RouteKey(route, query)
           got == cacheGet(cache, stats, cacheKey, Undefined)
       IN  /\ cache' = got.cache
           /\ stats' = got.stats
           /\ tally' = TallyGet(tally, got.result)
           /\ IF got.result.found
              THEN /\ response' = [NoResponseYet EXCEPT
                          !.status = 200, !.data = got.result.data,
                          !.lastUpdated = got.result.timestamp, !.cacheHit = TRUE,
                          !.by = "route", !.route = route.name, !.query = query,
                          !.arrived = now]
                   /\ UNCHANGED pending
              ELSE /\ pending' = Append(pending,
                          [route |-> route, query |-> query, cacheKey |-> cacheKey,
                           arrived |-> now, id |-> served + 1])
                   /\ UNCHANGED response
    /\ UNCHANGED <<now, schedVars, clientVars, aggVars, pfVars, maxSize, lastOp, written,
                   script, keyed, boot>>

\* A handler that answers without storing what the transformer returned.
HandlerRespondsOnly(p, data, cause) ==
    /\ response' = [NoResponseYet EXCEPT
           !.status = 200, !.data = data, !.lastUpdated = now,
           !.by = "route", !.route = pending[p].route.name,
           !.query = pending[p].query, !.arrived = pending[p].arrived,
           !.cause = cause]
    /\ pending' = RemoveAt(pending, p)
    /\ UNCHANGED <<now, schedVars, clientVars, aggVars, pfVars, cacheVars, served, boot>>

\* The handler of pending request p after `await transformer...` returned
\* data: it stores data and answers (part_002:123-133, risk.js:35-44).
\* `cause` is the upstream failure the transformer met, if any, and `prior`
\* what the cache held for the request's key when the transformer returned.
HandlerStores(p, data, cause) ==
    /\ LET req == pending[p]
           put == cacheSet(cache, stats, req.cacheKey, data, getTTLForType("kpis"))
           i == KeyIndex(cache, req.cacheKey)
           prior == IF i = 0 THEN Absent
                    ELSE [found |-> TRUE, data |-> cache[i].data,
                          timestamp |-> cache[i].timestamp, stale |-> isExpired(cache[i])]
       IN  /\ cache' = put.cache
           /\ stats' = put.stats
           /\ tally' = TallySet(tally, cache, put.cache, req.cacheKey)
           /\ response' = [NoResponseYet EXCEPT
                  !.status = 200, !.data = data, !.lastUpdated = now,
                  !.by = "route", !.route = req.route.name, !.query = req.query,
                  !.arrived = req.arrived, !.prior = prior, !.cause = cause]
    /\ pending' = RemoveAt(pending, p)
    /\ UNCHANGED <<now, schedVars, clientVars, aggVars, pfVars, maxSize, lastOp, written,
                   script, keyed, served, boot>>

\* The transformer of pending request p resolves with `data`.
TransformerResolves(p, data) ==
    /\ p \in 1..Len(pending)
    /\ data = pending[p].id
    /\ HandlerStores(p, data, Unclassified)

\* The upstream requests of pending request p fail with err inside a
\* transformer that catches: it returns zeros (part_006:453-460).
TransformerDefaults(p, err) ==
    /\ p \in 1..Len(pending)
    /\ pending[p].route.catches
    /\ HandlerStores(p, Zeros, err)

\* A failure path that drops the entry stored for the request's key.
TransformerRejectsDrops(p, err) ==
    /\ p \in 1..Len(pending)
    /\ ~pending[p].route.catches
    /\ LET req == pending[p]
           i == KeyIndex(cache, req.cacheKey)
           prior == IF i = 0 THEN Absent
                    ELSE [found |-> TRUE, data |-> cache[i].data,
                          timestamp |-> cache[i].timestamp, stale |-> isExpired(cache[i])]
       IN  /\ cache' = cacheDelete(cache, req.cacheKey)
           /\ stats' = [stats EXCEPT !.misses = @ + 1]
           /\ tally' = TallyGet(tally, Absent)
           /\ response' = [NoResponseYet EXCEPT
                  !.status = IF err.statusCode # 0 THEN err.statusCode ELSE 500,
                  !.error = TRUE,
                  !.type = IF err.type # "none" THEN err.type ELSE "INTERNAL_ERROR",
                  !.by = "errorHandler", !.route = req.route.name,
                  !.query = req.query, !.arrived = req.arrived, !.prior = prior,
                  !.cause = err]
    /\ pending' = RemoveAt(pending, p)
    /\ UNCHANGED <<now, schedVars, clientVars, aggVars, pfVars, maxSize, lastOp, written,
                   script, keyed, served, boot>>

\* The transformer of pending request p rejects with err: the handler calls
\* next(error) (part_002:134-136) and errorHandler answers
\* (error-handler.js:11-53).  `prior` records what the cache held for the
\* request's own key at that moment, `arrived` when the request came in,
\* `cause` the error handed to next().
TransformerRejects(p, err) ==
    /\ p \in 1..Len(pending)
    /\ ~pending[p].route.catches
    /\ LET req == pending[p]
           cacheKey == HandlerKey(req.route, req.query)
           staleData == cacheGet(cache, stats, cacheKey, "true")
           i == KeyIndex(cache, req.cacheKey)
           prior == IF i = 0 THEN Absent
                    ELSE [found |-> TRUE, data |-> cache[i].data,
                          timestamp |-> cache[i].timestamp, stale |-> isExpired(cache[i])]
       IN  /\ cache' = staleData.cache
           /\ stats' = staleData.stats
           /\ tally' = TallyGet(tally, staleData.result)
           /\ IF staleData.result.found
              THEN response' = [NoResponseYet EXCEPT
                       !.status = 200, !.data = staleData.result.data,
                       !.stale = TRUE, !.error = TRUE,
                       !.lastUpdated = staleData.result.timestamp, !.cacheHit = TRUE,
                       !.by = "errorHandler", !.route = req.route.name,
                       !.query = req.query, !.arrived = req.arrived, !.prior = prior,
                       !.cause = err]
              ELSE response' = [NoResponseYet EXCEPT
                       !.status = IF err.statusCode # 0 THEN err.statusCode ELSE 500,
                       !.error = TRUE,
                       !.type = IF err.type # "none" THEN err.type ELSE "INTERNAL_ERROR",
                       !.by = "errorHandler", !.route = req.route.name,
                       !.query = req.query, !.arrived = req.arrived, !.prior = prior,
                       !.cause = err]
    /\ pending' = RemoveAt(pending, p)
    /\ UNCHANGED <<now, schedVars, clientVars, aggVars, pfVars, maxSize, lastOp, written,
                   script, keyed, served, boot>>

\* ============================================================ Server start-up
\* testConnection() (ssc-client.js:106-123) awaits this.get('/projects') and
\* returns { connected: true } when it resolved, { connected: false } from
\* its catch when it rejected.
Connected(call) == Bool(call.st = "resolved")

\* The callback of app.listen up to `await sscClient.testConnection()`
\* (server.js:141-150).
Listen ==
    /\ boot.pc = "init"
    /\ getCall.st = "idle"
    /\ boot' = [boot EXCEPT !.pc = "testing"]
    /\ getCall' = NewCall
    /\ getLog' = <<>>
    /\ UNCHANGED <<now, schedVars, retries, paging, aggVars, pfVars, cacheVars,
                   pending, response, served>>

\* The listen callback after testConnection() returned (server.js:151-161):
\* scheduler.start() when connected, a log line otherwise.
ConnectionTested ==
    /\ boot.pc = "testing"
    /\ Settled(getCall)
    /\ boot' = [boot EXCEPT !.pc = "done", !.first = Connected(getCall),
                            !.connected = Connected(getCall)]
    /\ getCall' = NotCalled
    /\ IF Truthy(Connected(getCall))
       THEN start /\ Record("start")
       ELSE UNCHANGED schedVars
    /\ UNCHANGED <<now, retries, getLog, paging, aggVars, pfVars, cacheVars,
                   pending, response, served>>

\* GET /api/health up to `await sscClient.testConnection()` (server.js:41-43).
HealthCheck ==
    /\ boot.pc = "done"
    /\ boot.checks < MaxChecks
    /\ getCall.st = "idle"
    /\ boot' = [boot EXCEPT !.pc = "health", !.checks = @ + 1]
    /\ getCall' = NewCall
    /\ getLog' = <<>>
    /\ UNCHANGED <<now, schedVars, retries, paging, aggVars, pfVars, cacheVars,
                   pending, response, served>>

\* The health handler after testConnection() returned (server.js:44-55): it
\* answers with the connection status and reads the cache and the scheduler.
HealthAnswers ==
    /\ boot.pc = "health"
    /\ Settled(getCall)
    /\ boot' = [boot EXCEPT !.pc = "done", !.connected = Connected(getCall)]
    /\ getCall' = NotCalled
    /\ UNCHANGED <<now, schedVars, retries, getLog, paging, aggVars, pfVars, cacheVars,
                   pending, response, served>>

\* =========================================================== Specifications
InitSched ==
    /\ now = 0
    /\ SchedInit
    /\ ClientIdle
    /\ versions = <<>>
    /\ AggIdle
    /\ PfIdle
    /\ maxSize = MaxSize
    /\ CacheInit
    /\ RouteIdle

NextSched ==
    \/ \E name \in JobNames : Register(name)
    \/ Start
    \/ Stop
    \/ TimerTick
    \/ ForceRefreshCall
    \/ \E c \in 1..MaxTriggers, o \in Outcomes : JobSettles(c, o)
    \/ Tick

SpecSched == InitSched /\ [][NextSched]_vars

\* The promise of every job that was invoked settles, and forceRefresh()
\* resumes after its `await fn()` (scheduler.js:102).
SpecStop ==
    /\ InitSched
    /\ [][NextSched]_vars
    /\ WF_vars(\E c \in 1..MaxTriggers, o \in Outcomes : JobSettles(c, o))

\* The scheduler as server.js runs it: the registered jobs are the stubs of
\* server.js:94-107, which resolve; start(), stop() and the timer callbacks
\* are recorded.
NextLife ==
    \/ \E name \in JobNames : Register(name)
    \/ StartCall
    \/ StopCall
    \/ TimerFires
    \/ ForceRefreshCall
    \/ \E c \in 1..MaxTriggers : JobSettles(c, "return")
    \/ Tick

SpecLife == InitSched /\ [][NextLife]_vars

InitGet ==
    /\ now = 0
    /\ SchedInit
    /\ retries \in 1..MaxRetries
    /\ getCall = NewCall
    /\ getLog = <<>>
    /\ paging = NotPaging
    /\ versions = <<>>
    /\ AggIdle
    /\ PfIdle
    /\ maxSize = MaxSize
    /\ CacheInit
    /\ RouteIdle

NextGet ==
    \/ GetSucceeds
    \/ \E error \in Failures : GetFails(error)
    \/ GetWakes

\* Every attempt settles (axios enforces `timeout`, ssc-client.js:29) and
\* every sleep ends (setTimeout, ssc-client.js:266).
SpecGet == InitGet /\ [][NextGet]_vars /\ WF_vars(NextGet)

InitBatch ==
    /\ now = 0
    /\ SchedInit
    /\ retries \in 1..MaxRetries
    /\ getCall = NotCalled
    /\ getLog = <<>>
    /\ paging = NotPaging
    /\ \E n \in 0..MaxVersions : versions = [i \in 1..n |-> i]
    /\ AggIdle
    /\ PfIdle
    /\ maxSize = MaxSize
    /\ CacheInit
    /\ RouteIdle

NextBatch ==
    \/ CallFetchAllIssues
    \/ \E error \in Failures : ListFails(error)
    \/ ListWakes
    \/ ListSucceeds
    \/ \E v \in 1..MaxVersions : VersionSucceeds(v)
    \/ \E v \in 1..MaxVersions, error \in Failures : VersionFails(v, error)
    \/ \E v \in 1..MaxVersions : VersionWakes(v)
    \/ \E n \in 0..MaxRequests, c \in 1..MaxConcurrency : CallParallelFetch(n, c)
    \/ \E i \in 1..MaxRequests, o \in {"ok", "failed"} : RequestSettles(i, o)

SpecBatch == InitBatch /\ [][NextBatch]_vars

\* One getWithPagination() call against an upstream collection of up to
\* MaxVersions items; each page is fetched by get(), whose attempts get no
\* response, a 404, or a page.
InitPage ==
    /\ now = 0
    /\ SchedInit
    /\ ClientIdle
    /\ \E n \in 0..MaxVersions : versions = [i \in 1..n |-> i]
    /\ AggIdle
    /\ PfIdle
    /\ maxSize = MaxSize
    /\ CacheInit
    /\ RouteIdle

NextPage ==
    \/ \E limit \in 0..MaxLimit, advertised \in BOOLEAN :
           CallGetWithPagination(limit, advertised)
    \/ GetSucceeds
    \/ \E error \in {NoResponse, 404} : GetFails(error)
    \/ GetWakes
    \/ PageArrives
    \/ PageFails

SpecPage == InitPage /\ [][NextPage]_vars

InitRoute ==
    /\ now = 0
    /\ SchedInit
    /\ ClientIdle
    /\ versions = <<>>
    /\ AggIdle
    /\ PfIdle
    /\ maxSize = MaxSize
    /\ CacheInit
    /\ RouteIdle

NextRoute ==
    \/ \E route \in Routes, query \in Queries : RouteRequest(route, query)
    \/ \E p \in 1..MaxPending, data \in 1..MaxServed : TransformerResolves(p, data)
    \/ \E p \in 1..MaxPending, err \in Errors : TransformerRejects(p, err)
    \/ \E p \in 1..MaxPending, err \in Errors : TransformerDefaults(p, err)
    \/ Tick

SpecRoute == InitRoute /\ [][NextRoute]_vars

\* The server from module load on: the jobs are registered before the
\* server listens (server.js:94-107, 141).
NextBoot ==
    \/ boot.pc = "init" /\ \E name \in JobNames : Register(name)
    \/ Listen
    \/ GetSucceeds
    \/ \E error \in {NoResponse, 404} : GetFails(error)
    \/ GetWakes
    \/ ConnectionTested
    \/ HealthCheck
    \/ HealthAnswers
    \/ TimerFires
    \/ \E c \in 1..MaxTriggers : JobSettles(c, "return")
    \/ Tick

\* Every attempt settles (axios enforces `timeout`, ssc-client.js:29), every
\* sleep ends, every callback whose promise settled runs, and an armed
\* interval fires.
FairBoot ==
    /\ WF_vars(Listen)
    /\ WF_vars(GetSucceeds \/ GetWakes \/ \E error \in {NoResponse, 404} : GetFails(error))
    /\ WF_vars(ConnectionTested)
    /\ WF_vars(HealthAnswers)
    /\ WF_vars(TimerFires)
    /\ WF_vars(\E c \in 1..MaxTriggers : JobSettles(c, "return"))

SpecBoot == InitSched /\ [][NextBoot]_vars /\ FairBoot

InitCache ==
    /\ now = 0
    /\ SchedInit
    /\ ClientIdle
    /\ versions = <<>>
    /\ AggIdle
    /\ PfIdle
    /\ maxSize \in 1..MaxSize
    /\ CacheInit
    /\ RouteIdle

\* Any call of a method, MaxOps of them at most, at any time.
NextCache ==
    \/ lastOp.n < MaxOps /\
           \E key \in CacheKeys, ttl \in TTLs : CacheSetOp(key, lastOp.n + 1, ttl)
    \/ lastOp.n < MaxOps /\ \E key \in CacheKeys, opt \in Options : CacheGetOp(key, opt)
    \/ lastOp.n < MaxOps /\ \E key \in CacheKeys : CacheDeleteOp(key)
    \/ lastOp.n < MaxOps /\ CacheClearOp
    \/ Tick

SpecCache == InitCache /\ [][NextCache]_vars

\* The calls set(A), set(B), get(A), set(C) on an empty cache of maxSize 2,
\* each at any time and with any TTL.
InitLru ==
    /\ now = 0
    /\ SchedInit
    /\ ClientIdle
    /\ versions = <<>>
    /\ AggIdle
    /\ PfIdle
    /\ maxSize = 2
    /\ CacheInit
    /\ RouteIdle

NextLru ==
    \/ script = 0 /\ \E ttl \in TTLs : CacheSetOp(KeyA, 1, ttl)
    \/ script = 1 /\ \E ttl \in TTLs : CacheSetOp(KeyB, 2, ttl)
    \/ script = 2 /\ CacheGetOp(KeyA, Undefined)
    \/ script = 3 /\ \E ttl \in TTLs : CacheSetOp(KeyC, 4, ttl)
    \/ Tick

\* Calls of get, set, delete and clear on the keys A and B, MaxStatOps of them
\* at most, entries never expiring within a behaviour.
NextStats ==
    \/ lastOp.n < MaxStatOps /\
           \E key \in {KeyA, KeyB} : CacheSetOp(key, lastOp.n + 1, ttlKpis)
    \/ lastOp.n < MaxStatOps /\ \E key \in {KeyA, KeyB} : CacheGetOp(key, Undefined)
    \/ lastOp.n < MaxStatOps /\ CacheDeleteOp(KeyA)
    \/ lastOp.n < MaxStatOps /\ CacheClearOp

SpecStats == InitCache /\ [][NextStats]_vars

\* generateKey() called on a cache that is being filled.
NextKey ==
    \/ \E metric \in Metrics, arg \in FilterArgs : GenerateKeyCall(metric, arg)
    \/ lastOp.n < maxSize /\ \E key \in {KeyA, KeyB} : CacheSetOp(key, lastOp.n + 1, ttlKpis)

SpecKey == InitLru /\ [][NextKey]_vars

SpecLru == InitLru /\ [][NextLru]_vars

\* ------------------------------------------------------- Scheduler claims
\* The job that cycle c is awaiting.
RunningJob(c) == refreshFunctions[cycles[c].idx]

\* A step in which forceRefresh() is invoked (by start(), the timer or a caller).
Triggered == hist'.triggers = hist.triggers + 1

\* C2: a forceRefresh() made while a refresh is in progress is skipped and
\* invokes no job; at most one refresh cycle is in flight at every instant,
\* and no job has two executions overlapping in time.
AtMostOneCycle ==
    /\ Len(cycles) <= 1
    /\ cycles # <<>> => refreshInProgress
    /\ \A c1, c2 \in 1..Len(cycles) : c1 # c2 => RunningJob(c1) # RunningJob(c2)

SkippedWhileInProgress ==
    (Triggered /\ refreshInProgress) =>
        /\ hist'.skipped = hist.skipped + 1
        /\ hist'.invoked = hist.invoked
        /\ cycles' = cycles

ReentrancyGuard == [](AtMostOneCycle) /\ [][SkippedWhileInProgress]_vars

\* C2 witness: a trigger was skipped and a cycle is in flight.
ReentrancyGuardWitness == hist.skipped > 0 /\ Len(cycles) = 1 /\ hist.triggers >= 2

Names(failed) == [i \in 1..Len(failed) |-> failed[i].name]

\* C4 (as claimed): in a refresh cycle that was not skipped every job
\* registered at its start is invoked exactly once, in registration order,
\* whether or not earlier jobs threw; when the cycle returns every such job
\* is in exactly one of success and failed, failed iff it threw.
JobIsolation ==
    ended.how # "none" =>
        /\ Len(ended.invoked) >= ended.nStart
        /\ SubSeq(ended.invoked, 1, ended.nStart) = ended.jobsAtStart
        /\ ended.how = "returned" =>
             \A j \in Range(ended.jobsAtStart) :
                /\ (j \in Range(ended.success)) # (j \in Range(Names(ended.failed)))
                /\ (j \in Range(Names(ended.failed))) <=> (j \in ended.threw)

\* C5 (as claimed): a forceRefresh() that was not skipped ends with the guard
\* released and lastRefreshTime updated, whatever its jobs settle to.
GuardReleased ==
    (ended.how # "none" /\ cycles = <<>>) =>
        /\ refreshInProgress = FALSE
        /\ lastRefreshTime >= ended.startTime

\* C6: a trigger that arrives while a cycle is in flight is dropped: it
\* starts no cycle and no job, then or later; cycles start only in the step
\* of a trigger, jobs run only inside a cycle, and the cycles run are the
\* triggers that were not skipped.
CyclesAreUnskippedTriggers == hist.cycles = hist.triggers - hist.skipped

DroppedInFlight ==
    (Triggered /\ cycles # <<>>) =>
        /\ hist'.skipped = hist.skipped + 1
        /\ hist'.cycles = hist.cycles
        /\ hist'.invoked = hist.invoked
        /\ cycles' = cycles

NothingQueued ==
    /\ hist'.cycles # hist.cycles => (Triggered /\ hist'.cycles = hist.cycles + 1)
    /\ hist'.invoked # hist.invoked => (Triggered \/ cycles # <<>>)
    /\ (cycles = <<>> /\ ~Triggered) => cycles' = <<>>

DroppedNeverQueued ==
    /\ [](CyclesAreUnskippedTriggers)
    /\ [][DroppedInFlight]_vars
    /\ [][NothingQueued]_vars

\* C6 witness: a trigger was dropped and the cycle it met has since returned.
DroppedNeverQueuedWitness ==
    /\ hist.skipped = 1
    /\ hist.cycles = 1
    /\ ended.how = "returned"
    /\ ended.nStart >= 1
    /\ cycles = <<>>
    /\ ~refreshInProgress

\* The metric a registered job refreshes: the first job is
\* refresh_program_kpis, the second refresh_risk_metrics (server.js:94-102).
RefreshedKey(name) ==
    IF name = 1 THEN generateKey(<<"program", "_", "kpis">>, <<>>)
    ELSE generateKey(<<"risk", "_", "compliance">>, <<>>)

\* C25 (as claimed): when a refresh cycle has returned with every job
\* registered at its start in success, the cache holds for the metric of
\* each of them an entry created during the cycle with the ttl of the kpis
\* class, which a read made right after the cycle returns as a fresh hit.
ProactiveRefresh ==
    (/\ ended.how = "returned"
     /\ ended.nStart >= 1
     /\ ended.failed = <<>>
     /\ now = lastRefreshTime) =>
        \A j \in Range(ended.success) :
            LET i == KeyIndex(cache, RefreshedKey(j))
            IN  /\ i # 0
                /\ cache[i].timestamp >= ended.startTime
                /\ cache[i].timestamp <= lastRefreshTime
                /\ cache[i].ttl = ttlKpis
                /\ cacheGet(cache, stats, RefreshedKey(j), Undefined).result.found

\* The step is a recorded call of op.
Called(op) == called'.n = called.n + 1 /\ called'.op = op

\* The scheduler's own state.
SchedState == <<isRunning, intervalId, refreshFunctions, lastRefreshTime,
                refreshInProgress, timers, cycles, ended, hist>>

AtMostOneTimer == Cardinality(timers) <= 1

\* C26 (as claimed): a start() on a running scheduler changes no state, arms
\* no timer and triggers no refresh; a start() on a scheduler that is not
\* running sets isRunning, runs one refresh cycle at once and arms exactly
\* one timer; at most one timer is armed in every reachable state.
StartAsClaimedStep ==
    Called("start") =>
        IF isRunning
        THEN SchedState' = SchedState
        ELSE /\ isRunning'
             /\ hist'.triggers = hist.triggers + 1
             /\ hist'.cycles = hist.cycles + 1
             /\ timers = {}
             /\ timers' = {intervalId'}
             /\ intervalId' # 0

StartContract == [](AtMostOneTimer) /\ [][StartAsClaimedStep]_vars

\* C26 (amended): a start() on a running scheduler changes no state, arms no
\* timer and triggers no refresh; a start() on a scheduler that is not
\* running sets isRunning, calls forceRefresh() once and arms exactly one
\* timer; that call starts a refresh cycle unless one is in flight, in
\* which case it is skipped; at most one timer is armed in every reachable
\* state.
StartStep ==
    Called("start") =>
        IF isRunning
        THEN SchedState' = SchedState
        ELSE /\ isRunning'
             /\ hist'.triggers = hist.triggers + 1
             /\ IF refreshInProgress
                THEN /\ hist'.skipped = hist.skipped + 1
                     /\ hist'.cycles = hist.cycles
                     /\ cycles' = cycles
                ELSE /\ hist'.skipped = hist.skipped
                     /\ hist'.cycles = hist.cycles + 1
             /\ timers = {}
             /\ timers' = {intervalId'}
             /\ intervalId' # 0

StartTriggersOnce == [](AtMostOneTimer) /\ [][StartStep]_vars

\* C26 witness: a start() made on a stopped scheduler while a refresh cycle
\* was in flight: it armed the one timer and its refresh was skipped.
StartTriggersOnceWitness ==
    /\ called.op = "start"
    /\ ~called.was
    /\ ~called.cycle
    /\ isRunning
    /\ Cardinality(timers) = 1
    /\ hist.skipped >= 1

\* C27: a stop() on a running scheduler disarms the timer, clears isRunning
\* and changes nothing else; a stop() on a scheduler that is not running
\* (stopped already, or never started) changes no state; while the
\* scheduler is not running no timer is armed and no timer callback fires;
\* a start() made after a stop() arms a timer again.
StopStep ==
    Called("stop") =>
        /\ <<refreshFunctions, lastRefreshTime, refreshInProgress, cycles, ended, hist>>'
             = <<refreshFunctions, lastRefreshTime, refreshInProgress, cycles, ended, hist>>
        /\ IF isRunning
           THEN ~isRunning' /\ timers' = {} /\ intervalId' = 0
           ELSE SchedState' = SchedState

TimerStep == Called("timer") => (isRunning /\ intervalId \in timers)

ResumeStep ==
    (Called("start") /\ called.stops >= 1 /\ ~isRunning) =>
        (isRunning' /\ intervalId' \in timers')

NoTimerWhenStopped == ~isRunning => (timers = {} /\ intervalId = 0)

StopContract ==
    /\ [](NoTimerWhenStopped)
    /\ [][StopStep /\ TimerStep /\ ResumeStep]_vars

\* C27 witness: after two stop() calls and a later start(), a timer callback
\* has fired and started a refresh cycle.
StopContractWitness ==
    /\ called.op = "timer"
    /\ called.stops >= 2
    /\ called.cycle
    /\ isRunning

\* C39: in every reachable state a repeating timer is armed (intervalId is
\* not null, and it is the one timer armed) exactly when isRunning is true,
\* and what getStatus() returns tells isRunning, refreshInProgress, the time
\* of the last refresh (null before the first), the refresh interval and
\* the number of registered jobs of that state.
TimerStateInvariant ==
    /\ isRunning <=> intervalId # 0
    /\ timers = IF isRunning THEN {intervalId} ELSE {}
    /\ getStatus.isRunning = isRunning
    /\ getStatus.refreshInProgress = refreshInProgress
    /\ getStatus.lastRefreshTime.kind = "null" <=> lastRefreshTime = NoTime
    /\ lastRefreshTime # NoTime => DateOf(getStatus.lastRefreshTime) = lastRefreshTime
    /\ getStatus.refreshInterval = refreshInterval
    /\ getStatus.registeredFunctions = Len(refreshFunctions)

\* C39 witness: the scheduler was stopped and started again; it is running
\* with its timer armed, two jobs registered, a cycle in flight and an
\* earlier cycle finished.
TimerStateInvariantWitness ==
    /\ called.stops >= 1
    /\ isRunning
    /\ intervalId \in timers
    /\ getStatus.refreshInProgress
    /\ getStatus.lastRefreshTime.kind = "string"
    /\ getStatus.registeredFunctions = 2

\* The scheduler is stopped while the guard of a refresh cycle is set.
StoppedInFlight == ~isRunning /\ refreshInProgress

\* A stop() made while a cycle is in flight changes neither the guard, nor
\* the registered jobs, nor the cycle.
StopInFlightStep ==
    (isRunning /\ ~isRunning' /\ refreshInProgress) =>
        /\ refreshInProgress'
        /\ refreshFunctions' = refreshFunctions
        /\ cycles' = cycles

\* C40 (as claimed): no mid-flight cancellation.  stop() during a refresh
\* cycle leaves the guard and the job list as they are, and the cycle goes
\* on to its end: a state in which the scheduler is stopped with the guard
\* set is always followed by one in which the guard is cleared and
\* lastRefreshTime is recorded.
NoMidFlightCancel ==
    /\ [][StopInFlightStep]_vars
    /\ StoppedInFlight ~> (~refreshInProgress /\ lastRefreshTime # NoTime)

\* ------------------------------------------------------ Aggregator claims
\* Per-version requests awaiting a response of the upstream.
InFlight == {v \in DOMAIN calls : calls[v].st = "inflight"}

\* C3: within one aggregateIssuesAcrossVersions call at most
\* maxConcurrentRequests per-version requests are in flight at any instant,
\* retried requests included.
BoundedInFlight == Cardinality(InFlight) <= maxConcurrentRequests

\* C3 witness: the bound is met while a request is in a retry attempt and
\* more versions are waiting.
BoundedInFlightWitness ==
    /\ Cardinality(InFlight) = maxConcurrentRequests
    /\ \E v \in InFlight : calls[v].attempt >= 2
    /\ \E v \in DOMAIN calls : calls[v].st = "idle"

RECURSIVE Concat(_)
Concat(seqs) == IF seqs = <<>> THEN <<>> ELSE Head(seqs) \o Concat(Tail(seqs))

\* The issues of the versions whose fetch succeeded, in version order.
IssuesOfSucceeded ==
    Concat([v \in 1..Len(versions) |->
               IF calls[v].st = "resolved" THEN IssuesOf(versions[v]) ELSE <<>>])

\* C7: per-version failures never escalate: aggregateIssuesAcrossVersions
\* resolves with exactly the issues of the versions whose fetch succeeded,
\* a failing version contributing nothing, and fetchAllIssues rejects only
\* when fetching the version list fails.
PerItemIsolation ==
    /\ faPc = "rejected" => listCall.st = "rejected"
    /\ faPc \in {"agg", "resolved"} => listCall.st = "resolved"
    /\ \A v \in DOMAIN calls : calls[v].st # "rejected"
    /\ faPc = "resolved" =>
        /\ \A v \in DOMAIN calls : calls[v].st \in {"resolved", "defaulted"}
        /\ allIssues = IssuesOfSucceeded

\* C7 witness: the aggregation resolved although some versions failed, and
\* it holds the issues of versions that succeeded.
PerItemIsolationWitness ==
    /\ faPc = "resolved"
    /\ Len(versions) >= 3
    /\ \E v \in DOMAIN calls : calls[v].st = "defaulted" /\ IssuesOf(versions[v]) # <<>>
    /\ \E v \in DOMAIN calls : calls[v].st = "resolved" /\ IssuesOf(versions[v]) # <<>>
    /\ allIssues # <<>>

\* The versions whose request succeeded.
Succeeded == {versions[v] : v \in {w \in DOMAIN calls : calls[w].st = "resolved"}}

RECURSIVE SumLines(_)
SumLines(vs) ==
    IF vs = {} THEN 0
    ELSE LET v == CHOOSE x \in vs : TRUE
         IN  LinesOf(v) + SumLines(vs \ {v})

\* C29: what a batched aggregation resolves with is determined by the
\* versions and by which of their requests succeeded, whatever the order in
\* which the responses of a batch arrived: the issues are those of the
\* succeeded versions in version order, the summed counter is the sum over
\* the succeeded versions, and the id set is the set of succeeded versions.
CompletionOrderIndependence ==
    faPc = "resolved" =>
        /\ Range(metrics.order) = Succeeded
        /\ Len(metrics.order) = Cardinality(Succeeded)
        /\ metrics.totalLOC = SumLines(Succeeded)
        /\ metrics.ids = Succeeded
        /\ allIssues = flatMap(DataOf(calls), [v \in 1..Len(versions) |-> v])

\* C29 witness: an aggregation over four versions or more has resolved after
\* the response of a later version of a batch arrived before the response
\* of an earlier one.
CompletionOrderIndependenceWitness ==
    /\ faPc = "resolved"
    /\ Len(versions) >= 4
    /\ Cardinality(Succeeded) >= 3
    /\ \E i \in 1..(Len(metrics.order) - 1) : metrics.order[i] > metrics.order[i + 1]
    /\ allIssues # <<>>

\* C8 (as claimed): a request function that fails does not abort
\* parallelFetch: every request is still executed and the call returns a
\* result for each position.
BatchIsolation ==
    /\ pfPc # "rejected"
    /\ pfPc \in {"resolved", "rejected"} =>
        /\ \A i \in DOMAIN pfReq : pfReq[i] # "idle"
        /\ Len(pfResults) = Len(pfReq)

\* The chunks are consecutive slices of 1..n, of `size` elements each but
\* for the last, which has between 1 and `size`.
IsPartition(chunks, n, size) ==
    /\ Concat(chunks) = [i \in 1..n |-> i]
    /\ \A k \in 1..Len(chunks) :
        /\ k < Len(chunks) => Len(chunks[k]) = size
        /\ Len(chunks[k]) \in 1..size

\* The chunk an element was put in.
ChunkOf(chunks, x) == CHOOSE k \in 1..Len(chunks) : x \in Range(chunks[k])

\* Every element of an earlier chunk has settled once an element of a later
\* chunk has been issued.
InBatchOrder(chunks, state) ==
    \A x, y \in DOMAIN state :
        (ChunkOf(chunks, x) < ChunkOf(chunks, y) /\ state[y] # "idle")
            => state[x] \in {"ok", "failed", "resolved", "defaulted", "rejected"}

\* C9: items are split into consecutive batches of size c, only the last
\* possibly smaller, and no request of a batch is issued before every
\* request of the batch before it has settled.
BatchOrder ==
    /\ pfPc # "idle" =>
        /\ IsPartition(pfChunks, Len(pfReq), pfConcurrency)
        /\ InBatchOrder(pfChunks, pfReq)
    /\ faPc \in {"agg", "resolved"} =>
        /\ IsPartition(aggChunks, Len(versions), maxConcurrentRequests)
        /\ InBatchOrder(aggChunks, [v \in DOMAIN calls |-> calls[v].st])

\* C9 witness: 7 items with concurrency 2 are in batches of 2, 2, 2, 1 and
\* the last batch is in flight after a request of an earlier batch of the
\* same size had settled first.
BatchOrderWitness ==
    /\ pfPc = "running"
    /\ Len(pfReq) = 7
    /\ pfConcurrency = 2
    /\ [k \in 1..Len(pfChunks) |-> Len(pfChunks[k])] = <<2, 2, 2, 1>>
    /\ pfChunk = 4
    /\ pfReq[7] = "inflight"

\* ---------------------------------------------------------- Client claims
\* Failures the client is to retry: no response, or a 5xx status.
Retryable(error) == error = NoResponse \/ error \in 500..599

\* C10: one get() makes at most `retries` attempts; a failure with a 4xx
\* (or any non-5xx) status ends the call on that attempt, network failures
\* and 5xx responses are retried until success or until `retries` attempts
\* were made; the call always terminates.
RetryBound ==
    /\ getCall.attempt <= retries
    /\ getCall.attempt =
          Len(getLog) + (IF getCall.st \in {"inflight", "resolved"} THEN 1 ELSE 0)
    /\ \A i \in 1..Len(getLog) :
          ~Retryable(getLog[i]) => (i = Len(getLog) /\ getCall.st = "rejected")
    /\ getCall.st = "sleeping" => getCall.attempt < retries
    /\ (getCall.st = "rejected" /\ Retryable(getLog[Len(getLog)]))
          => getCall.attempt = retries

RetryBoundAndTermination == [](RetryBound) /\ <>(Settled(getCall))

\* C10 witness: a 503 was retried and the 404 that followed ended the call.
RetryBoundWitness ==
    /\ retries = 3
    /\ getLog = <<503, 404>>
    /\ getCall.st = "rejected"
    /\ getCall.attempt = 2

LastAttemptClassification ==
    getCall.st = "rejected" =>
        /\ getCall.attempt = Len(getLog)
        /\ getCall.err = classifyError(getLog[Len(getLog)])

\* C12 witness: attempts failing 503 then 404 raise NOT_FOUND after two
\* attempts.
LastAttemptClassificationWitness ==
    /\ getLog = <<503, 404>>
    /\ getCall.st = "rejected"
    /\ getCall.attempt = 2
    /\ getCall.err = [type |-> "NOT_FOUND", statusCode |-> 404]

\* The kind classifyError gives a 5xx response.
UpstreamKind == classifyError(500).type

\* C13 (as claimed): for every failure of an attempt, no response is
\* NETWORK_ERROR and retryable, a 5xx status is the upstream-server kind and
\* retryable, 401/403/404/400 are AUTH/PERMISSION/NOT_FOUND/BAD_REQUEST and
\* not retryable, any other status is not retryable, and shouldRetry is
\* true exactly for the failures classified as network or upstream-server.
ClassificationAgreesWithRetry ==
    \A i \in 1..Len(getLog) :
        LET e == getLog[i]
            kind == classifyError(e).type
        IN  /\ e = NoResponse => (kind = "NETWORK_ERROR" /\ shouldRetry(e))
            /\ e \in 500..599 => (kind = UpstreamKind /\ shouldRetry(e))
            /\ e = 401 => (kind = "AUTH_ERROR" /\ ~shouldRetry(e))
            /\ e = 403 => (kind = "PERMISSION_ERROR" /\ ~shouldRetry(e))
            /\ e = 404 => (kind = "NOT_FOUND" /\ ~shouldRetry(e))
            /\ e = 400 => (kind = "BAD_REQUEST" /\ ~shouldRetry(e))
            /\ (e # NoResponse /\ e \notin 500..599) => ~shouldRetry(e)
            /\ shouldRetry(e) <=> kind \in {"NETWORK_ERROR", UpstreamKind}

\* ----------------------------------------------------------- Cache claims
StoredKeys(c) == {c[i].key : i \in 1..Len(c)}

\* The step is the call cache.set(key, ...) for a key that was / was not stored.
SetStep(wasStored) ==
    /\ lastOp'.n = lastOp.n + 1
    /\ lastOp'.op = "set"
    /\ lastOp'.present = wasStored

\* C15 (as claimed): get(key) without ignoreExpiry returns null exactly when
\* no entry is stored for key or its age exceeds its ttl (age = ttl is
\* fresh); otherwise the stored payload and creation time with
\* stale = false.  A get that follows a set of the key at once returns the
\* payload set.
FreshRead ==
    (lastOp.op = "get" /\ ~Truthy(lastOp.opt)) =>
        LET i == KeyIndex(cache, lastOp.key)
            r == lastOp.result
        IN  /\ ~r.found <=>
                  (i = 0 \/ lastOp.at - cache[i].timestamp > cache[i].ttl)
            /\ r.found =>
                  /\ r.data = cache[i].data
                  /\ r.timestamp = cache[i].timestamp
                  /\ r.stale = "false"
            /\ (i # 0 /\ written[lastOp.key].at = lastOp.at) =>
                  (r.found /\ r.data = written[lastOp.key].data)

\* C16: get(key, {ignoreExpiry: true}) returns the entry whenever one is
\* stored, whatever its age, with the payload and creation time of the last
\* set of the key and stale = (now - timestamp > ttl); a key whose ttl has
\* elapsed reads as null without ignoreExpiry and as its payload with
\* stale = true with it.
StaleRead ==
    /\ (lastOp.op = "get" /\ Truthy(lastOp.opt)) =>
          LET w == written[lastOp.key]
              r == lastOp.result
          IN  /\ r.found <=> lastOp.key \in StoredKeys(cache)
              /\ r.found =>
                    /\ r.data = w.data
                    /\ r.timestamp = w.at
                    /\ r.stale = Bool(lastOp.at - w.at > w.ttl)
    /\ \A k \in StoredKeys(cache) :
          now - written[k].at > written[k].ttl =>
              /\ cacheGet(cache, stats, k, Undefined).result = Null
              /\ cacheGet(cache, stats, k, "true").result =
                    [found |-> TRUE, data |-> written[k].data,
                     timestamp |-> written[k].at, stale |-> "true"]

\* C16 witness: a read with ignoreExpiry of an entry older than its ttl
\* returned the payload with stale = true.
StaleReadWitness ==
    /\ lastOp.op = "get"
    /\ lastOp.opt = "true"
    /\ lastOp.result.found
    /\ lastOp.result.stale = "true"
    /\ lastOp.at - lastOp.result.timestamp > written[lastOp.key].ttl

\* C17 (as claimed): a set of a key not stored while size >= maxSize removes
\* exactly one entry, one whose lastAccessed is minimal among the stored.
LruVictimStep ==
    (SetStep(FALSE) /\ Len(cache) >= maxSize) =>
        \E v \in 1..Len(cache) :
            /\ \A j \in 1..Len(cache) : cache[v].lastAccessed <= cache[j].lastAccessed
            /\ StoredKeys(cache') = (StoredKeys(cache) \ {cache[v].key}) \cup {lastOp'.key}
            /\ Len(cache') = Len(cache)

LruVictim == [][LruVictimStep]_vars

\* C18 (as claimed): with maxSize = 2, after set(A), set(B), get(A), set(C)
\* the cache stores A and C, whatever the clock read at each call.
LruScenario == script = 4 => StoredKeys(cache) = {KeyA, KeyC}

\* C19 (as claimed): the cache never stores more than maxSize entries.
CapacityInvariant == Len(cache) <= maxSize

\* C20: a set of a key already stored never evicts: the stored keys, the
\* size and the evictions counter are unchanged, every other entry is
\* untouched, and the key's payload, timestamp, lastAccessed and ttl are
\* those of the call.
OverwriteStep ==
    SetStep(TRUE) =>
        /\ Len(cache') = Len(cache)
        /\ stats'.evictions = stats.evictions
        /\ \A i \in 1..Len(cache) :
              /\ cache'[i].key = cache[i].key
              /\ cache[i].key # lastOp'.key => cache'[i] = cache[i]
              /\ cache[i].key = lastOp'.key =>
                    cache'[i] = [key |-> lastOp'.key, data |-> lastOp'.data,
                                 timestamp |-> now, lastAccessed |-> now,
                                 ttl |-> lastOp'.ttl]

OverwriteFrame == [][OverwriteStep]_vars

\* C20 witness: a key was overwritten, with another payload, at a later time
\* and with another ttl, in a cache of two entries that was at capacity.
OverwriteFrameWitness ==
    /\ lastOp.op = "set"
    /\ lastOp.present
    /\ lastOp.n = 3
    /\ maxSize = 2
    /\ Len(cache) = 2
    /\ cache[1].key = lastOp.key
    /\ cache[1].data = 3
    /\ cache[1].timestamp > cache[2].timestamp
    /\ cache[1].ttl # cache[2].ttl

\* The step is a call cache.get(key, ...).
GetStep ==
    /\ lastOp'.n = lastOp.n + 1
    /\ lastOp'.op = "get"

\* C21: a get that returns an entry sets that entry's lastAccessed to the
\* current time and changes nothing else; a get that returns null changes
\* no entry.
AccessTimeStep ==
    GetStep =>
        IF lastOp'.result.found
        THEN /\ Len(cache') = Len(cache)
             /\ \A i \in 1..Len(cache) :
                   IF cache[i].key = lastOp'.key
                   THEN cache'[i] = [cache[i] EXCEPT !.lastAccessed = now]
                   ELSE cache'[i] = cache[i]
        ELSE cache' = cache

AccessTimeUpdate == [][AccessTimeStep]_vars

\* C21 witness: a read with ignoreExpiry found an entry written earlier and
\* moved its lastAccessed, and nothing else, to the time of the read.
AccessTimeUpdateWitness ==
    /\ lastOp.op = "get"
    /\ lastOp.result.found
    /\ lastOp.result.stale = "true"
    /\ \E i \in 1..Len(cache) :
          /\ cache[i].key = lastOp.key
          /\ cache[i].lastAccessed = lastOp.at
          /\ cache[i].timestamp < lastOp.at
          /\ cache[i].timestamp = written[lastOp.key].at
          /\ cache[i].data = written[lastOp.key].data

\* The step is a call that may remove entries: a set of a key not stored,
\* delete or clear.
RemovingStep ==
    /\ lastOp'.n = lastOp.n + 1
    /\ \/ lastOp'.op = "set" /\ ~lastOp'.present
       \/ lastOp'.op \in {"delete", "clear"}

\* C22: an entry stays retrievable with ignoreExpiry, whatever its age,
\* until it is evicted, overwritten, deleted or cleared: only such calls
\* remove entries or change what a key holds; get and the passage of time
\* never do.
NoExpiryStep ==
    /\ ~RemovingStep => StoredKeys(cache) \subseteq StoredKeys(cache')
    /\ \A k \in StoredKeys(cache) \cap StoredKeys(cache') :
          (lastOp'.n = lastOp.n \/ lastOp'.op # "set" \/ lastOp'.key # k) =>
              /\ cache'[KeyIndex(cache', k)].data = cache[KeyIndex(cache, k)].data
              /\ cache'[KeyIndex(cache', k)].timestamp = cache[KeyIndex(cache, k)].timestamp
    /\ \A k \in StoredKeys(cache') :
          LET r == cacheGet(cache', stats', k, "true").result
          IN  /\ r.found
              /\ r.data = written'[k].data
              /\ r.timestamp = written'[k].at

ClearStep ==
    /\ lastOp'.n = lastOp.n + 1
    /\ lastOp'.op = "clear"

\* C31: after clear() getStats() reports size 0 and a get of any key, with
\* or without ignoreExpiry, returns null; a key becomes stored again only
\* by a set of that key; a clear() that follows a clear() changes nothing;
\* and clear() leaves the hits, misses, sets and evictions counters as they
\* were.
ClearEffectStep ==
    /\ ClearStep =>
          /\ getStats(cache', stats').size = 0
          /\ \A key \in CacheKeys, opt \in Options :
                ~cacheGet(cache', stats', key, opt).result.found
          /\ stats' = stats
          /\ lastOp.op = "clear" => cache' = cache /\ written' = written
    /\ \A key \in CacheKeys :
          (key \notin StoredKeys(cache) /\ key \in StoredKeys(cache'))
              => (lastOp'.op = "set" /\ lastOp'.key = key)

ClearEffect == [][ClearEffectStep]_vars

\* C31 witness: clear() was the third call, after a set and a call that was
\* no get (a delete or another clear): the cache is empty and the counters
\* still count the set.
ClearEffectWitness ==
    /\ lastOp.op = "clear"
    /\ lastOp.n = 3
    /\ stats.sets = 1
    /\ stats.hits + stats.misses = 0
    /\ cache = <<>>

\* The counters getStats() reports are those of the calls made.
CountersMatch ==
    LET s == getStats(cache, stats)
    IN  /\ s.hits + s.misses = tally.gets
        /\ s.hits = tally.found
        /\ s.sets = tally.sets
        /\ s.evictions = tally.evicted
        /\ s.size = Cardinality(StoredKeys(cache))

\* C32 (as claimed): hits + misses is the number of get calls, hits the
\* number of gets that returned an entry, sets the number of set calls,
\* evictions the number of entries evictLRU removed, size the number of
\* stored entries, and hitRate is hits / (hits + misses), or 0 when no get
\* was made.
StatsExact ==
    /\ CountersMatch
    /\ LET s == getStats(cache, stats)
       IN  IF tally.gets = 0 THEN s.hitRate = 0
           ELSE s.hitRate * tally.gets = 100 * tally.found

\* C32 (amended): the same counters, and hitRate is hits / (hits + misses)
\* rounded to two decimals, or 0 when no get was made.
StatsConsistent ==
    /\ CountersMatch
    /\ LET s == getStats(cache, stats)
       IN  IF tally.gets = 0 THEN s.hitRate = 0
           ELSE /\ 2 * (100 * tally.found - s.hitRate * tally.gets) < tally.gets
                /\ 2 * (s.hitRate * tally.gets - 100 * tally.found) <= tally.gets

\* C32 witness: one hit and two misses after a set: hitRate is 0.33.
StatsConsistentWitness ==
    /\ tally.sets = 1
    /\ tally.gets = 3
    /\ tally.found = 1
    /\ getStats(cache, stats).hitRate = 33

\* ------------------------------------------------------ Pagination claims
\* The page requested at `offset` ends the loop: it is empty, shorter
\* than the limit, or brings the items received to the advertised count.
StoppingPage(offset) ==
    LET data == Page(versions, offset, paging.limit)
        count == Count(versions, paging.count)
    IN  \/ Len(data) = 0
        \/ Len(data) < paging.limit
        \/ (count # 0 /\ offset + Len(data) >= count)

\* C28: the requests of one getWithPagination() call are made at
\* start = 0, L, 2L, ... in that order, each after the page before it was
\* received in full; no request follows a page that is empty, shorter than L
\* or that reaches the advertised count; at most N div L + 1 requests are
\* made; and the call resolves with the N items of the collection, each
\* once, in the upstream's order.
PaginatedFetch ==
    paging.st # "idle" =>
        LET k == Len(paging.asked)
        IN  /\ k >= 1
            /\ \A i \in 1..k : paging.asked[i] = (i - 1) * paging.limit
            /\ paging.start = paging.asked[k]
            /\ \A i \in 1..(k - 1) : ~StoppingPage(paging.asked[i])
            /\ k <= Len(versions) \div paging.limit + 1
            /\ paging.st \in {"awaiting", "rejected"} =>
                  /\ paging.allData = SubSeq(versions, 1, (k - 1) * paging.limit)
                  /\ getCall.st # "idle"
            /\ paging.st = "resolved" =>
                  /\ StoppingPage(paging.asked[k])
                  /\ paging.allData = versions
                  /\ getCall.st = "resolved"

\* C28 witness: a call with limit 2 against five items has resolved after
\* three requests with the five items.
PaginatedFetchWitness ==
    /\ paging.st = "resolved"
    /\ paging.limit = 2
    /\ Len(versions) = 5
    /\ paging.asked = <<0, 2, 4>>
    /\ paging.allData = versions

\* The (name, value) assignments of a `filters` argument.
Assignments(arg) == {arg.pairs[i] : i \in 1..Len(arg.pairs)}

\* C30: the key generateKey returned is the key it returns for every
\* argument with the same set of (name, value) assignments, whatever the
\* insertion order, and for the same metric; for a missing (undefined or
\* null) or empty filter object it is the key of {}; and the call changes
\* neither the cache contents nor the statistics.
SameKeyForSameSet ==
    keyed # NoKey =>
        /\ \A other \in FilterArgs :
              Assignments(other) = Assignments(keyed.arg)
                  => generateKeyCall(keyed.metric, other) = keyed.key
        /\ Assignments(keyed.arg) = {}
              => keyed.key = generateKeyCall(keyed.metric, Object(<<>>))

KeyCallIsPure == keyed' # keyed => (cache' = cache /\ stats' = stats)

KeyCanonicalization == [](SameKeyForSameSet) /\ [][KeyCallIsPure]_vars

\* C30 witness: generateKey was called on a cache that holds entries with
\* two filters inserted in descending order of their names, and returned
\* the key that lists them in ascending order.
KeyCanonicalizationWitness ==
    /\ Len(cache) = 2
    /\ keyed.arg = Object(<<Pair("criticality", "High"), Pair("businessUnit", "A")>>)
    /\ keyed.key = keyed.metric \o <<"_", "businessUnit", ":", "A", "_",
                                     "criticality", ":", "High">>

\* C37 (as claimed): key separation.  The key generateKey returned is
\* returned for no other metric and for no filter object with a different
\* set of (name, value) assignments.
KeySeparation ==
    keyed # NoKey =>
        \A metric \in Metrics, other \in FilterArgs :
            (metric # keyed.metric \/ Assignments(other) # Assignments(keyed.arg))
                => generateKeyCall(metric, other) # keyed.key

\* ------------------------------------------------------------ Server claims
\* C38 (as claimed): start-up liveness.  When the connection test of the
\* listen callback found the upstream unavailable and a later connection
\* test finds it available, the scheduler is eventually started and a
\* refresh cycle eventually runs.
StartupLiveness ==
    (boot.first = "false" /\ boot.connected = "true")
        ~> (isRunning /\ hist.cycles > 0)

\* ----------------------------------------------------------- Route claims
\* C14 (as claimed): when the cache holds nothing for the request, the
\* status of the error response is 401 for AUTH_ERROR, 404 for NOT_FOUND,
\* 503 for a network failure and for every upstream 5xx, and 500 for an
\* error without a classification.
StatusMapping ==
    (response.by = "errorHandler" /\ ~response.prior.found) =>
        /\ response.cause.type = "AUTH_ERROR" => response.status = 401
        /\ response.cause.type = "NOT_FOUND" => response.status = 404
        /\ response.cause.type = "NETWORK_ERROR" => response.status = 503
        /\ (response.cause.type = UpstreamKind /\ response.cause.statusCode \in 500..599)
              => response.status = 503
        /\ response.cause = Unclassified => response.status = 500

\* The route a response answers.
RouteOf(resp) == CHOOSE r \in Routes : r.name = resp.route

FreshEntry(c, key) == KeyIndex(c, key) # 0 /\ ~isExpired(c[KeyIndex(c, key)])

\* C24: read path.  A step that receives a request either answers it from
\* a fresh entry stored under the request's key (status 200, the entry's
\* payload, cacheHit true, stale false) without starting a transformer, or
\* finds no fresh entry under that key and starts the transformer without
\* answering.  A step in which the handler answers with what its
\* transformer computed leaves the payload stored under the same key with
\* the ttl of the kpis class and the current time, answers with cacheHit
\* false, and a read of that key right after it finds the payload.
ReadPathStep ==
    /\ served' = served + 1 =>
          IF pending' = pending
          THEN LET key == RouteKey(RouteOf(response'), response'.query)
               IN  /\ FreshEntry(cache, key)
                   /\ response'.status = 200
                   /\ response'.by = "route"
                   /\ response'.data = cache[KeyIndex(cache, key)].data
                   /\ response'.cacheHit
                   /\ ~response'.stale
                   /\ ~response'.error
          ELSE LET req == pending'[Len(pending')]
               IN  /\ pending' = Append(pending, req)
                   /\ req.cacheKey = RouteKey(req.route, req.query)
                   /\ ~FreshEntry(cache, req.cacheKey)
                   /\ response' = response
    /\ (Len(pending') < Len(pending) /\ response'.by = "route"
            /\ response'.cause = Unclassified) =>
          LET key == RouteKey(RouteOf(response'), response'.query)
              i == KeyIndex(cache', key)
              again == cacheGet(cache', stats', key, Undefined)
          IN  /\ i # 0
              /\ cache'[i].data = response'.data
              /\ cache'[i].ttl = ttlKpis
              /\ cache'[i].timestamp = now
              /\ response'.status = 200
              /\ ~response'.cacheHit
              /\ ~response'.stale
              /\ again.result.found
              /\ again.result.data = response'.data

ReadPath == [][ReadPathStep]_vars

\* C24 witness: the second request received was answered from the cache with
\* the payload the transformer computed for the first one.
ReadPathWitness ==
    /\ served = 2
    /\ response.by = "route"
    /\ response.cacheHit
    /\ ~response.stale
    /\ response.data = 1
    /\ pending = <<>>

\* C33 (as claimed): when a handler suspends at its transformer's first
\* await, the upstream requests that transformer has just started, which
\* are all in flight, are at most maxConcurrentRequests.
ProcessWideBoundStep ==
    (served' = served + 1 /\ Len(pending') = Len(pending) + 1) =>
        pending'[Len(pending')].route.parallel <= maxConcurrentRequests

ProcessWideBound == [][ProcessWideBoundStep]_vars

\* No two transformers are computing the value of the same key.
OneFlightPerKey ==
    \A p, q \in 1..Len(pending) :
        p # q => pending[p].cacheKey # pending[q].cacheKey

\* A handler that stores what its transformer computed never replaces the
\* payload of a request received later than its own (payloads are the
\* numbers of the requests they were computed for).
NoOlderOverwriteStep ==
    (Len(pending') < Len(pending) /\ response'.by = "route"
        /\ response'.cause = Unclassified /\ response'.prior.found)
            => response'.prior.data <= response'.data

\* C34 (as claimed): requests for the same route and filters that arrive
\* while the cache has no fresh entry for their key share one computation,
\* and a computation started earlier never overwrites the entry written by
\* one started later.
SingleFlight == [](OneFlightPerKey) /\ [][NoOlderOverwriteStep]_vars

\* C35 (as claimed): last known-good protection.  A response of a route
\* handler whose transformer met a failure of its upstream requests, given
\* when the cache held an earlier entry for the request's key, carries that
\* entry's payload marked stale; the handler has not replaced the entry by
\* the aggregate computed from the defaults.
LastKnownGood ==
    (response.by = "route" /\ response.cause # Unclassified /\ response.prior.found)
        => /\ response.stale
           /\ response.data = response.prior.data
           /\ \A i \in 1..Len(cache) :
                  (cache[i].key = RouteKey(CHOOSE r \in Routes : r.name = response.route,
                                           response.query))
                      => cache[i].data = response.prior.data

\* A step in which a route's computation failed and errorHandler answered.
FailureStep == Len(pending') < Len(pending) /\ response'.by = "errorHandler"

\* C36: a failed computation leaves the cache untouched.  In a step in which
\* a pending request's transformer rejects, nothing is set, deleted or
\* cleared: the cache holds the same entries in the same order, each with
\* its key, payload, timestamp and ttl, and nothing is counted as set or
\* evicted.
FailureKeepsCacheStep ==
    FailureStep =>
        /\ Len(cache') = Len(cache)
        /\ \A i \in 1..Len(cache) :
               /\ cache'[i].key = cache[i].key
               /\ cache'[i].data = cache[i].data
               /\ cache'[i].timestamp = cache[i].timestamp
               /\ cache'[i].ttl = cache[i].ttl
        /\ stats'.sets = stats.sets
        /\ stats'.evictions = stats.evictions

FailureKeepsCache == [][FailureKeepsCacheStep]_vars

\* A request's computation failed while the cache held an entry for the
\* request's key, and the entry is still there with its payload and
\* timestamp.
FailureKeepsCacheWitness ==
    /\ response.by = "errorHandler"
    /\ response.prior.found
    /\ \E i \in 1..Len(cache) :
           /\ cache[i].key = RouteKey(CHOOSE r \in Routes : r.name = response.route,
                                      response.query)
           /\ cache[i].data = response.prior.data
           /\ cache[i].timestamp = response.prior.timestamp
           /\ cache[i].ttl = getTTLForType("kpis")

\* C23 (as claimed): no silent default.  A response to a request whose
\* upstream was unavailable (the client classified the failure of a request
\* that got no response) and for whose key the cache held no entry is an
\* error response of errorHandler carrying the type and the status of the
\* classified error, on every route; it is never a successful response.
NoSilentDefault ==
    (response.cause = classifyError(NoResponse) /\ response.prior = Absent)
        => /\ response.by = "errorHandler"
           /\ response.error
           /\ response.type = response.cause.type
           /\ response.status = response.cause.statusCode

\* C1 (as claimed): when a route's computation fails and the cache holds an
\* expired entry for the request's key, put there by an earlier success of
\* the same route and filters, errorHandler answers 200 with that payload,
\* stale = true, an error message and lastUpdated = the entry's creation time.
StaleFallback ==
    (/\ response.by = "errorHandler"
     /\ response.prior.found
     /\ response.prior.stale
     /\ response.prior.timestamp < response.arrived) =>
        /\ response.status = 200
        /\ response.stale
        /\ response.cacheHit
        /\ response.error
        /\ response.data = response.prior.data
        /\ response.lastUpdated = response.prior.timestamp

====
